---- MODULE Spec2Model ----
(***************************************************************************)
(* A model of the smart-cities dashboard front end: the API facade         *)
(* (services/apiService), the root component (App.js), the location        *)
(* selector (StateSelector), the search bar (SearchBar.jsx) and the        *)
(* dashboard container (Dashboard.jsx).                                    *)
(*                                                                         *)
(* Strings are sequences of symbols: "" is <<>>, a tag such as Mumbai is   *)
(* the one-symbol string <<"Mumbai">>, and the separators "," "=" "&" are  *)
(* symbols of their own, so that joining and encoding are real operations. *)
(* JavaScript values are tagged records: undefined, a string, an array.    *)
(***************************************************************************)
EXTENDS Integers, Sequences, FiniteSets, TLC

VARIABLES
    \* ---- API facade, called directly (services/apiService)
    apiCall,          \* the request a facade method has built and sent, or NoCall
    apiResult,        \* how the last facade call settled, or NoResult
    \* ---- root component (App.js)
    selectedState, selectedCity, showDashboard,
    appTimers,        \* pending setTimeout(() => setShowDashboard(true), 500): remaining time of each
    appOp,            \* the handler that ran last in the root component, its argument,
                      \* and the selection it found
    \* ---- location selector (StateSelector)
    selMounted, statesAndCities, selLoading, selError,
    locInflight,      \* the mounted selector's getLocations() request has not settled
    locStale,         \* requests of unmounted selectors that have not settled
    locFetches,       \* getLocations() calls issued by the current mount
    \* ---- search bar (SearchBar.jsx)
    barMounted,
    query, suggestions, showSuggestions, barLoading, filters,
    barTimers,        \* pending setTimeout callbacks of the search bar, oldest first
    sugInflight,      \* getSuggestions() requests not yet settled, oldest first
    sinceChange,      \* time since the query last changed, up to the debounce delay
    burst,            \* bookkeeping of the current run of query changes under 300 ms apart
    tagBefore,        \* per list field, the pairs <<a, b>> of present tags with a added before b
    barOp,            \* the search-bar step that ran last
    \* ---- the dashboard's search session (Dashboard.jsx)
    isSearchOpen, searchResults, isSearching, searchQuery, searchFilters,
    searchInflight,   \* globalSearch() requests not yet settled, oldest first
    wire,             \* the search requests the last step sent
    \* ---- the dashboard's snapshot and its refreshing (Dashboard.jsx)
    dashMounted,
    data, isLoading, autoRefresh, error, isOnline,
    intervals,        \* live setInterval timers of the auto-refresh effect: remaining time of each
    dashInflight,     \* getDashboardData() requests not yet settled, oldest first
    refresh,          \* how long the current interval has been live, and the fetches it started
    netUp,            \* the browser's connectivity, whose changes raise online and offline
    dashOp,           \* the dashboard step that ran last
    \* ---- the results view (SearchResults), followed on its own
    resultsProp,      \* the bundle the view is given as its results prop
    selectedTab,
    tabView,          \* what the view shows
    viewOp            \* the step of the view that ran last

facadeVars == <<apiCall, apiResult>>
appVars == <<selectedState, selectedCity, showDashboard, appTimers, appOp>>
selVars == <<selMounted, statesAndCities, selLoading, selError, locInflight, locStale, locFetches>>
barVars == <<barMounted, query, suggestions, showSuggestions, barLoading, filters, barTimers,
             sugInflight, sinceChange, burst, tagBefore, barOp>>
searchVars == <<isSearchOpen, searchResults, isSearching, searchQuery, searchFilters,
                searchInflight, wire>>
dashVars == <<dashMounted, data, isLoading, autoRefresh, error, isOnline, intervals,
              dashInflight, refresh, netUp, dashOp>>
\* the dashboard with the search bar it renders
treeVars == <<dashVars, barVars, searchVars>>
viewVars == <<resultsProp, selectedTab, tabView, viewOp>>
vars == <<facadeVars, appVars, selVars, treeVars, viewVars>>
\* what the actions of one component leave alone
notFacade == <<appVars, selVars, treeVars, viewVars>>
notTree == <<facadeVars, appVars, selVars, viewVars>>
notView == <<facadeVars, appVars, selVars, treeVars>>

(***************************************************************************)
(* JavaScript values                                                       *)
(***************************************************************************)
Undef == [t |-> "undefined"]
Str(s) == [t |-> "string", chars |-> s]
Arr(a) == [t |-> "array", items |-> a]
\* a JavaScript number, kept with the text String(n) gives
Num(n) == [t |-> "number", text |-> <<ToString(n)>>]

\* filters.key of an object that may lack the key
Get(obj, key) == IF key \in DOMAIN obj THEN obj[key] ELSE Undef

\* if (x): undefined, '' and 0 are falsy; an array (even []) is truthy
Truthy(x) ==
    CASE x.t = "undefined" -> FALSE
      [] x.t = "string" -> x.chars # <<>>
      [] x.t = "number" -> x.text # <<"0">>
      [] x.t = "array" -> TRUE

\* if (x?.length)
HasLength(x) ==
    CASE x.t = "array" -> Len(x.items) > 0
      [] x.t = "string" -> Len(x.chars) > 0
      [] OTHER -> FALSE

\* String(x) as URLSearchParams.append applies it to a scalar
ToText(x) ==
    CASE x.t = "string" -> x.chars
      [] x.t = "number" -> x.text
      [] x.t = "undefined" -> <<"undefined">>
      [] OTHER -> <<>>

\* Array.prototype.join(',') over an array of strings
RECURSIVE JoinComma(_)
JoinComma(items) ==
    IF items = <<>> THEN <<>>
    ELSE IF Len(items) = 1 THEN items[1]
    ELSE items[1] \o <<",">> \o JoinComma(Tail(items))

(***************************************************************************)
(* URLSearchParams                                                         *)
(***************************************************************************)
\* if (cond) params.append(key, value)
AppendIf(cond, key, value) == IF cond THEN << [k |-> key, v |-> value] >> ELSE <<>>

\* the application/x-www-form-urlencoded byte serializer, on the symbols that occur
FormEncodeSymbol(c) ==
    CASE c = "," -> <<"%2C">>
      [] c = " " -> <<"+">>
      [] OTHER -> <<c>>

RECURSIVE FormEncode(_)
FormEncode(s) == IF s = <<>> THEN <<>> ELSE FormEncodeSymbol(Head(s)) \o FormEncode(Tail(s))

\* URLSearchParams.prototype.toString(): name=value pairs joined by &
RECURSIVE ParamsToString(_)
ParamsToString(params) ==
    IF params = <<>> THEN <<>>
    ELSE LET p == Head(params)
             one == <<p.k, "=">> \o FormEncode(p.v)
         IN  IF Len(params) = 1 THEN one ELSE one \o <<"&">> \o ParamsToString(Tail(params))

\* encodeURIComponent on a path segment
RECURSIVE EncodeURIComponent(_)
EncodeURIComponent(s) ==
    IF s = <<>> THEN <<>>
    ELSE (IF Head(s) = " " THEN <<"%20">> ELSE <<Head(s)>>) \o EncodeURIComponent(Tail(s))

\* a default parameter value: used when the argument is undefined
Default(arg, d) == IF arg = Undef THEN d ELSE arg

EmptyObject == [key \in {} |-> Undef]

(***************************************************************************)
(* The facade's queryText construction (searchAPI)                             *)
(***************************************************************************)
\* if (filters.cities?.length) params.append('cities', filters.cities.join(','))
ListParam(filterObj, field, key) ==
    LET x == Get(filterObj, field)
    IN  AppendIf(HasLength(x), key, IF x.t = "array" THEN JoinComma(x.items) ELSE <<>>)

\* a date rule that asks only whether the field is defined
DateParam_definedOnly(filterObj, field, key) ==
    LET x == Get(filterObj, field) IN AppendIf(x.t # "undefined", key, ToText(x))

\* if (filters.dateFrom) params.append('date_from', filters.dateFrom)
DateParam(filterObj, field, key) ==
    LET x == Get(filterObj, field) IN AppendIf(Truthy(x), key, ToText(x))

\* if (filters.trafficMin !== undefined) params.append('traffic_min', filters.trafficMin)
BoundParam(filterObj, field, key) ==
    LET x == Get(filterObj, field) IN AppendIf(x.t # "undefined", key, ToText(x))

BoundParams(filterObj) ==
    BoundParam(filterObj, "trafficMin", "traffic_min")
    \o BoundParam(filterObj, "trafficMax", "traffic_max")
    \o BoundParam(filterObj, "aqiMin", "aqi_min")
    \o BoundParam(filterObj, "aqiMax", "aqi_max")
    \o BoundParam(filterObj, "energyMin", "energy_min")
    \o BoundParam(filterObj, "energyMax", "energy_max")

GlobalSearchParams(queryText, filtersArg, sizeArg) ==
    LET filterObj == Default(filtersArg, EmptyObject)
        size == Default(sizeArg, Num(50))
    IN  AppendIf(Truthy(queryText), "q", ToText(queryText))
        \o ListParam(filterObj, "cities", "cities")
        \o ListParam(filterObj, "states", "states")
        \o DateParam(filterObj, "dateFrom", "date_from")
        \o DateParam(filterObj, "dateTo", "date_to")
        \o BoundParams(filterObj)
        \o ListParam(filterObj, "severities", "severities")
        \o ListParam(filterObj, "categories", "categories")
        \o AppendIf(Truthy(size), "size", ToText(size))

SearchMetricsParams(filtersArg, sizeArg) ==
    LET filterObj == Default(filtersArg, EmptyObject)
        size == Default(sizeArg, Num(50))
    IN  ListParam(filterObj, "cities", "cities")
        \o ListParam(filterObj, "states", "states")
        \o DateParam(filterObj, "dateFrom", "date_from")
        \o DateParam(filterObj, "dateTo", "date_to")
        \o BoundParams(filterObj)
        \o AppendIf(Truthy(size), "size", ToText(size))

SearchAlertsParams(queryArg, filtersArg, sizeArg) ==
    LET queryText == Default(queryArg, Str(<<>>))
        filterObj == Default(filtersArg, EmptyObject)
        size == Default(sizeArg, Num(50))
    IN  AppendIf(Truthy(queryText), "q", ToText(queryText))
        \o ListParam(filterObj, "cities", "cities")
        \o ListParam(filterObj, "states", "states")
        \o ListParam(filterObj, "severities", "severities")
        \o ListParam(filterObj, "categories", "categories")
        \o DateParam(filterObj, "dateFrom", "date_from")
        \o DateParam(filterObj, "dateTo", "date_to")
        \o AppendIf(Truthy(size), "size", ToText(size))

GetSuggestionsParams(queryText, sizeArg) ==
    LET size == Default(sizeArg, Num(10))
    IN  AppendIf(Truthy(queryText), "q", ToText(queryText))
        \o AppendIf(Truthy(size), "size", ToText(size))

ExportSearchResultsParams(queryText, filtersArg, formatArg) ==
    LET filterObj == Default(filtersArg, EmptyObject)
        format == Default(formatArg, Str(<<"json">>))
    IN  AppendIf(Truthy(queryText), "q", ToText(queryText))
        \o ListParam(filterObj, "cities", "cities")
        \o ListParam(filterObj, "states", "states")
        \o DateParam(filterObj, "dateFrom", "date_from")
        \o DateParam(filterObj, "dateTo", "date_to")
        \o BoundParams(filterObj)
        \o ListParam(filterObj, "severities", "severities")
        \o ListParam(filterObj, "categories", "categories")
        \o AppendIf(Truthy(format), "format", ToText(format))

\* the request a search-style method sends: apiClient.get(`${path}?${params.toString()}`)
\* (extra is the size or format argument after its default)
SearchRequest(method, path, queryText, filterObj, extra, params) ==
    [method |-> method, query |-> queryText, filters |-> Default(filterObj, EmptyObject),
     extra |-> extra, params |-> params, qs |-> ParamsToString(params),
     url |-> <<path, "?">> \o ParamsToString(params)]

\* the request of a dashboardAPI method: a path, no query built from filters
PathRequest(method, url) ==
    [method |-> method, query |-> Undef, filters |-> EmptyObject, extra |-> Undef, params |-> <<>>,
     qs |-> <<>>, url |-> url]

LocationPath(prefix, state, city) ==
    <<prefix>> \o EncodeURIComponent(state) \o <<"/">> \o EncodeURIComponent(city)

(***************************************************************************)
(* How a facade call settles                                               *)
(***************************************************************************)
\* what the transport gives back: a response payload, or an error that carries a
\* message and, when the server answered, possibly a detail string
OkOutcome(payload) == [ok |-> TRUE, data |-> payload]
FailOutcome(kind, detail, message) ==
    [ok |-> FALSE, kind |-> kind, detail |-> detail, message |-> message]

Failures ==
    { FailOutcome("network", Undef, <<"Network Error">>),
      FailOutcome("timeout", Undef, <<"timeout of 30000ms exceeded">>),
      FailOutcome("status", Str(<<"City not found">>), <<"Request failed with status code 404">>),
      FailOutcome("status", Str(<<>>), <<"Request failed with status code 502">>),
      FailOutcome("status", Undef, <<"Request failed with status code 500">>) }

Obj(id) == [t |-> "object", id |-> id]

Resolved(value) == [kind |-> "resolved", value |-> value]
Rejected(message) == [kind |-> "rejected", message |-> message]

\* error.response?.data?.detail || error.message
DetailOrMessage(o) == IF Truthy(o.detail) THEN ToText(o.detail) ELSE o.message

\* try { return response.data } catch (error) { throw new Error(`${prefix}${detail || message}`) }
Rethrow(prefix, o) ==
    IF o.ok THEN Resolved(o.data) ELSE Rejected(<<prefix>> \o DetailOrMessage(o))

GetDashboardDataSettle(o) == Rethrow("Failed to fetch dashboard data: ", o)
GetLocationsSettle(o) == Rethrow("Failed to fetch locations: ", o)
GetRecentMetricsSettle(o) == Rethrow("Failed to fetch metrics: ", o)
GetActiveAlertsSettle(o) == Rethrow("Failed to fetch alerts: ", o)
\* healthCheck reads error.message only
HealthCheckSettle(o) ==
    IF o.ok THEN Resolved(o.data) ELSE Rejected(<<"Backend health check failed: ">> \o o.message)
GlobalSearchSettle(o) == Rethrow("Global search failed: ", o)
SearchMetricsSettle(o) == Rethrow("Metrics search failed: ", o)
SearchAlertsSettle(o) == Rethrow("Alerts search failed: ", o)
ExportSearchResultsSettle(o) == Rethrow("Export failed: ", o)

GetSuggestionsSettle_rethrows(o) == Rethrow("Suggestions failed: ", o)

\* catch (error) { console.warn(...); return []; }
GetSuggestionsSettle(o) == IF o.ok THEN Resolved(o.data) ELSE Resolved(Arr(<<>>))

FacadeSettle(method, o) ==
    CASE method = "getDashboardData" -> GetDashboardDataSettle(o)
      [] method = "getLocations" -> GetLocationsSettle(o)
      [] method = "getRecentMetrics" -> GetRecentMetricsSettle(o)
      [] method = "getActiveAlerts" -> GetActiveAlertsSettle(o)
      [] method = "healthCheck" -> HealthCheckSettle(o)
      [] method = "globalSearch" -> GlobalSearchSettle(o)
      [] method = "searchMetrics" -> SearchMetricsSettle(o)
      [] method = "searchAlerts" -> SearchAlertsSettle(o)
      [] method = "getSuggestions" -> GetSuggestionsSettle(o)
      [] method = "exportSearchResults" -> ExportSearchResultsSettle(o)

(***************************************************************************)
(* Bounds of the model                                                     *)
(***************************************************************************)
\* fields of a facade input that differ from the base filter record
MaxOverrides == 1
\* the user chooses among the first regions, and the first localities of each
MaxRegionChoice == 2
MaxCityChoice == 2
\* pending show-dashboard timers of the root component
MaxAppTimers == 2
\* getLocations() requests of unmounted selectors still in flight
MaxStale == 1

(***************************************************************************)
(* Inputs of the facade                                                    *)
(***************************************************************************)
\* SearchBar's useState initial filter record
InitialFilters ==
    [cities |-> Arr(<<>>), states |-> Arr(<<>>), dateFrom |-> Str(<<>>), dateTo |-> Str(<<>>),
     trafficMin |-> Str(<<>>), trafficMax |-> Str(<<>>), aqiMin |-> Str(<<>>),
     aqiMax |-> Str(<<>>), energyMin |-> Str(<<>>), energyMax |-> Str(<<>>),
     severities |-> Arr(<<>>), categories |-> Arr(<<>>)]

ListFields == {"cities", "states", "severities", "categories"}
DateFields == {"dateFrom", "dateTo"}
BoundFields == {"trafficMin", "trafficMax", "aqiMin", "aqiMax", "energyMin", "energyMax"}
FilterFields == ListFields \cup DateFields \cup BoundFields

\* the query parameter each filter field is sent as
ParamKey(field) ==
    CASE field = "dateFrom" -> "date_from"
      [] field = "dateTo" -> "date_to"
      [] field = "trafficMin" -> "traffic_min"
      [] field = "trafficMax" -> "traffic_max"
      [] field = "aqiMin" -> "aqi_min"
      [] field = "aqiMax" -> "aqi_max"
      [] field = "energyMin" -> "energy_min"
      [] field = "energyMax" -> "energy_max"
      [] OTHER -> field

FilterParamKeys == {ParamKey(f) : f \in FilterFields}

\* the filter fields each search-style method serializes
MethodFields(method) ==
    CASE method = "searchMetrics" -> FilterFields \ {"severities", "categories"}
      [] method = "searchAlerts" -> ListFields \cup DateFields
      [] method \in {"globalSearch", "exportSearchResults"} -> FilterFields
      [] OTHER -> {}

SearchMethods == {"globalSearch", "searchMetrics", "searchAlerts", "exportSearchResults"}

ListInputs ==
    {Undef, Arr(<<>>), Arr(<< <<"Mumbai">> >>), Arr(<< <<"Mumbai">>, <<"Pune">> >>),
     Arr(<< <<"Pune">>, <<"Mumbai">> >>)}
DateInputs == {Undef, Str(<<>>), Str(<<"2024-01-01">>)}
BoundInputs == {Undef, Str(<<>>), Str(<<"5">>), Num(0)}

FieldInputs(field) ==
    IF field \in ListFields THEN ListInputs
    ELSE IF field \in DateFields THEN DateInputs ELSE BoundInputs

\* { ...obj, [key]: value }
With(obj, key, value) ==
    [k \in DOMAIN obj \cup {key} |-> IF k = key THEN value ELSE obj[k]]

RECURSIVE Overridden(_)
Overridden(n) ==
    IF n = 0 THEN {EmptyObject, InitialFilters}
    ELSE LET prev == Overridden(n - 1)
         IN  prev \cup {With(f, field, v) : f \in prev, <<field, v>> \in
                          UNION {{<<fd, x>> : x \in FieldInputs(fd)} : fd \in FilterFields}}

FilterInputs == Overridden(MaxOverrides) \cup {Undef}
QueryInputs == {Undef, Str(<<>>), Str(<<"Mumbai">>), Str(<<"Mumbai", " ", "traffic">>)}
SizeInputs == {Undef, Num(0), Num(100)}
FormatInputs == {Undef, Str(<<"json">>)}
LocationInputs == {<< <<"Maharashtra">>, <<"Mumbai">> >>, << <<"Tamil", " ", "Nadu">>, <<"Chennai">> >>}

SuggestionLists == {Arr(<<>>), Arr(<< <<"Mumbai">>, <<"Mumbai", " ", "traffic">> >>)}

\* what the transport can give back to each method
Outcomes(method) ==
    Failures \cup
    (IF method = "getSuggestions" THEN {OkOutcome(x) : x \in SuggestionLists}
     ELSE {OkOutcome(Obj(1))})

NoCall == [method |-> "none"]
NoResult == [method |-> "none"]

(***************************************************************************)
(* The facade called directly: one action per method, one for the settling *)
(***************************************************************************)
\* a caller awaits one call before it makes the next
Idle == apiCall = NoCall

Send(request) ==
    /\ apiCall' = request
    /\ apiResult' = NoResult
    /\ UNCHANGED notFacade

GetDashboardData ==
    /\ Idle
    /\ \E loc \in LocationInputs :
           Send(PathRequest("getDashboardData", LocationPath("/dashboard/", loc[1], loc[2])))

GetLocations ==
    /\ Idle
    /\ Send(PathRequest("getLocations", <<"/locations">>))

GetRecentMetrics ==
    /\ Idle
    /\ \E loc \in LocationInputs, limit \in {Undef, Num(5)} :
           Send(PathRequest("getRecentMetrics",
                            LocationPath("/metrics/", loc[1], loc[2])
                                \o <<"?limit=">> \o ToText(Default(limit, Num(24)))))

GetActiveAlerts ==
    /\ Idle
    /\ \E loc \in LocationInputs :
           Send(PathRequest("getActiveAlerts", LocationPath("/alerts/", loc[1], loc[2])))

HealthCheck ==
    /\ Idle
    /\ Send(PathRequest("healthCheck", <<"/">>))

GlobalSearch ==
    /\ Idle
    /\ \E q \in QueryInputs, f \in FilterInputs, size \in SizeInputs :
           Send(SearchRequest("globalSearch", "/search/global", q, f, Default(size, Num(50)),
                              GlobalSearchParams(q, f, size)))

SearchMetrics ==
    /\ Idle
    /\ \E f \in FilterInputs, size \in SizeInputs :
           Send(SearchRequest("searchMetrics", "/search/metrics", Undef, f, Default(size, Num(50)),
                              SearchMetricsParams(f, size)))

SearchAlerts ==
    /\ Idle
    /\ \E q \in QueryInputs, f \in FilterInputs, size \in SizeInputs :
           Send(SearchRequest("searchAlerts", "/search/alerts", Default(q, Str(<<>>)), f,
                              Default(size, Num(50)),
                              SearchAlertsParams(q, f, size)))

GetSuggestions ==
    /\ Idle
    /\ \E q \in QueryInputs, size \in SizeInputs :
           Send(SearchRequest("getSuggestions", "/search/suggestions", q, EmptyObject,
                              Default(size, Num(10)),
                              GetSuggestionsParams(q, size)))

ExportSearchResults ==
    /\ Idle
    /\ \E q \in QueryInputs, f \in FilterInputs, format \in FormatInputs :
           Send(SearchRequest("exportSearchResults", "/search/export", q, f,
                              Default(format, Str(<<"json">>)),
                              ExportSearchResultsParams(q, f, format)))

\* the awaited apiClient.get(...) settles and the method returns or throws
Settle ==
    /\ apiCall # NoCall
    /\ \E o \in Outcomes(apiCall.method) :
         apiResult' = [method |-> apiCall.method, outcome |-> o,
                       settled |-> FacadeSettle(apiCall.method, o)]
    /\ apiCall' = NoCall
    /\ UNCHANGED notFacade

FacadeInit ==
    /\ apiCall = NoCall
    /\ apiResult = NoResult

NextFacade ==
    \/ GetDashboardData
    \/ GetLocations
    \/ GetRecentMetrics
    \/ GetActiveAlerts
    \/ HealthCheck
    \/ GlobalSearch
    \/ SearchMetrics
    \/ SearchAlerts
    \/ GetSuggestions
    \/ ExportSearchResults
    \/ Settle

(***************************************************************************)
(* The location selector (StateSelector) and the root component (App.js)   *)
(*                                                                         *)
(* Time in the root component advances in steps of 100 ms.  A timer fires  *)
(* when its remaining time is 0, and time does not advance past a timer    *)
(* that is due.                                                            *)
(***************************************************************************)
\* setTimeout(() => setShowDashboard(true), 500), in steps of 100 ms
ShowDelay == 5

Region(name, cities) == [name |-> name, cities |-> cities]

\* the static data of fetchLocations' catch branch, in the object's key order
FallbackDirectory ==
    << Region(<<"Maharashtra">>, << <<"Mumbai">>, <<"Pune">>, <<"Nagpur">>, <<"Nashik">>, <<"Aurangabad">> >>),
       Region(<<"Karnataka">>, << <<"Bangalore">>, <<"Mysore">>, <<"Hubli">>, <<"Mangalore">>, <<"Belgaum">> >>),
       Region(<<"Tamil", " ", "Nadu">>, << <<"Chennai">>, <<"Coimbatore">>, <<"Madurai">>, <<"Trichy">>, <<"Salem">> >>),
       Region(<<"Gujarat">>, << <<"Ahmedabad">>, <<"Surat">>, <<"Vadodara">>, <<"Rajkot">>, <<"Bhavnagar">> >>),
       Region(<<"Rajasthan">>, << <<"Jaipur">>, <<"Jodhpur">>, <<"Udaipur">>, <<"Kota">>, <<"Bikaner">> >>),
       Region(<<"West", " ", "Bengal">>, << <<"Kolkata">>, <<"Durgapur">>, <<"Asansol">>, <<"Siliguri">>, <<"Howrah">> >>),
       Region(<<"Delhi">>, << <<"New", " ", "Delhi">>, <<"East", " ", "Delhi">>, <<"West", " ", "Delhi">>, <<"North", " ", "Delhi">>, <<"South", " ", "Delhi">> >>),
       Region(<<"Uttar", " ", "Pradesh">>, << <<"Lucknow">>, <<"Kanpur">>, <<"Agra">>, <<"Varanasi">>, <<"Allahabad">> >>) >>

\* a directory the backend may answer GET /locations with
ServerDirectory ==
    << Region(<<"Goa">>, << <<"Panaji">> >>),
       Region(<<"Maharashtra">>, << <<"Mumbai">>, <<"Thane">> >>) >>

\* useState({})
EmptyDirectory == <<>>

LocationOutcomes == Failures \cup {OkOutcome(ServerDirectory)}

\* Object.keys(statesAndCities)
RegionNames(dir) == {dir[i].name : i \in DOMAIN dir}
\* statesAndCities[selectedState] || []
CitiesOf(dir, state) ==
    IF \E i \in DOMAIN dir : dir[i].name = state
    THEN (CHOOSE r \in {dir[i] : i \in DOMAIN dir} : r.name = state).cities
    ELSE <<>>

\* the root renders Dashboard instead of the selection page
DashboardShown(show, state, city) == show /\ state # <<>> /\ city # <<>>

\* the selector is on screen and past its loading card
SelectorUsable ==
    /\ ~DashboardShown(showDashboard, selectedState, selectedCity)
    /\ selMounted
    /\ ~selLoading

\* StateSelector mounts: useState initial values, then useEffect(() => fetchLocations(), [])
SelectorMount ==
    /\ selMounted' = TRUE
    /\ statesAndCities' = EmptyDirectory
    /\ selLoading' = TRUE
    /\ selError' = Undef
    /\ locInflight' = TRUE
    /\ locFetches' = 1
    /\ UNCHANGED locStale

\* StateSelector unmounts and its state is dropped; its request, if in flight, stays
\* in flight and will settle into a component that is gone
SelectorUnmount ==
    /\ selMounted' = FALSE
    /\ statesAndCities' = EmptyDirectory
    /\ selLoading' = TRUE
    /\ selError' = Undef
    /\ locInflight' = FALSE
    /\ locStale' = IF locInflight THEN locStale + 1 ELSE locStale
    /\ locFetches' = 0

\* what a render of the root does to the selector
SelectorFollows(shownAfter) ==
    LET shownBefore == DashboardShown(showDashboard, selectedState, selectedCity)
    IN  IF shownBefore /\ ~shownAfter THEN SelectorMount
        ELSE IF ~shownBefore /\ shownAfter THEN SelectorUnmount
        ELSE UNCHANGED selVars

\* a catch branch that calls fetchLocations() again
FetchLocationsSettle_retries(o) ==
    /\ locInflight
    /\ IF GetLocationsSettle(o).kind = "resolved"
       THEN /\ statesAndCities' = GetLocationsSettle(o).value
            /\ selLoading' = FALSE
            /\ locInflight' = FALSE
            /\ UNCHANGED <<selError, locFetches>>
       ELSE /\ selError' = Str(GetLocationsSettle(o).message)
            /\ statesAndCities' = FallbackDirectory
            /\ selLoading' = TRUE
            /\ locInflight' = TRUE
            /\ locFetches' = locFetches + 1
    /\ UNCHANGED <<selMounted, locStale>>

\* fetchLocations after its await: try / catch / finally
FetchLocationsSettle(o) ==
    /\ locInflight
    /\ IF GetLocationsSettle(o).kind = "resolved"
       THEN /\ statesAndCities' = GetLocationsSettle(o).value
            /\ UNCHANGED selError
       ELSE /\ selError' = Str(GetLocationsSettle(o).message)
            /\ statesAndCities' = FallbackDirectory
    /\ selLoading' = FALSE
    /\ locInflight' = FALSE
    /\ UNCHANGED <<selMounted, locStale, locFetches>>

(***************************************************************************)
(* The search bar (SearchBar.jsx) and the dashboard's search session       *)
(* (Dashboard.jsx, handleSearch to handleToggleSearch)                     *)
(*                                                                         *)
(* A query is a sequence of characters.  Time advances in steps of 100 ms; *)
(* a timer fires when its remaining time is 0, before anything else        *)
(* happens.  debounceRef.current is kept as the flag ref of the timer it   *)
(* names: clearTimeout(debounceRef.current) removes the pending timer that *)
(* carries the flag, and does nothing when that timer has fired.           *)
(***************************************************************************)
\* setTimeout(..., 300) of the suggestions effect, in steps of 100 ms
Debounce == 3

\* the longest query the user types
MaxQueryLen == 2
\* getSuggestions() requests in flight at once
MaxSugInflight == 2
\* globalSearch() requests in flight at once while the filters are edited
MaxFilterInflight == 1
MaxSearchInflight == 2

Null == [t |-> "null"]

Min(x, y) == IF x < y THEN x ELSE y

RECURSIVE SeqsUpTo(_, _)
SeqsUpTo(alphabet, n) ==
    IF n = 0 THEN {<<>>}
    ELSE LET shorter == SeqsUpTo(alphabet, n - 1)
         IN  shorter \cup {Append(x, c) : x \in shorter, c \in alphabet}

\* what the user can make of the input field
QueryValues == SeqsUpTo({"a", " "}, MaxQueryLen)

\* String.prototype.trim()
RECURSIVE TrimLeft(_)
TrimLeft(q) == IF q # <<>> /\ Head(q) = " " THEN TrimLeft(Tail(q)) ELSE q
RECURSIVE TrimRight(_)
TrimRight(q) ==
    IF q # <<>> /\ q[Len(q)] = " " THEN TrimRight(SubSeq(q, 1, Len(q) - 1)) ELSE q
Trim(q) == TrimRight(TrimLeft(q))

\* Object.values(filters).every(v => !v || (Array.isArray(v) && v.length === 0))
EveryFilterEmpty(f) ==
    \A key \in DOMAIN f : ~Truthy(f[key]) \/ (f[key].t = "array" /\ Len(f[key].items) = 0)

\* Object.values(newFilters).some(v => v && v.length > 0)
SomeFilterSet(f) == \E key \in DOMAIN f : Truthy(f[key]) /\ HasLength(f[key])

\* ---- timers of the search bar
\* a clearTimeout that cancels nothing
ClearTimeout_noop(timers) == timers

\* clearTimeout(debounceRef.current)
ClearTimeout(timers) == SelectSeq(timers, LAMBDA t : ~t.ref)

\* debounceRef.current = setTimeout(async () => {...}, 300), the callback closing over q
SetDebounce(timers, q) ==
    Append([i \in DOMAIN timers |-> [timers[i] EXCEPT !.ref = FALSE]],
           [kind |-> "debounce", left |-> Debounce, q |-> q, ref |-> TRUE])

\* an effect that returns no cleanup
EffectCleanup_none(timers) == timers

\* the effect's cleanup: return () => { if (debounceRef.current) clearTimeout(...) }
EffectCleanup(timers) == ClearTimeout(timers)

DueTimer == \E i \in DOMAIN barTimers : barTimers[i].left = 0
DebounceTimers(timers) == SelectSeq(timers, LAMBDA t : t.kind = "debounce")

\* ---- the search bar's state, and its handlers as functions on it
\* (with the bookkeeping that is kept beside it)
Bar == [query |-> query, suggestions |-> suggestions, showSuggestions |-> showSuggestions,
        barLoading |-> barLoading, filters |-> filters, timers |-> barTimers,
        inflight |-> sugInflight, sinceChange |-> sinceChange, burst |-> burst,
        tagBefore |-> tagBefore, op |-> barOp]

NoBurst == [changes |-> 0, ok |-> FALSE, fetches |-> 0, lastFetch |-> [q |-> <<>>, at |-> 0]]
NoOrder == [type \in ListFields |-> {}]
BarOp(name, cleared) == [name |-> name, cleared |-> cleared]

\* the useState initial values of SearchBar
BarInitial ==
    [query |-> <<>>, suggestions |-> <<>>, showSuggestions |-> FALSE, barLoading |-> FALSE,
     filters |-> InitialFilters, timers |-> <<>>, inflight |-> <<>>, sinceChange |-> Debounce,
     burst |-> NoBurst, tagBefore |-> NoOrder, op |-> BarOp("unmount", FALSE)]

\* requests whose component has unmounted: they settle into nothing
Gone(inflight) == [i \in DOMAIN inflight |-> [inflight[i] EXCEPT !.gone = TRUE]]
Without(inflight, i) == SubSeq(inflight, 1, i - 1) \o SubSeq(inflight, i + 1, Len(inflight))

\* the body of useEffect(..., [query]), run after a render with a new query
QueryEffect(b) ==
    IF Len(b.query) >= 2
    THEN [b EXCEPT !.timers = SetDebounce(ClearTimeout(@), b.query)]
    ELSE [b EXCEPT !.suggestions = <<>>, !.showSuggestions = FALSE]

\* setQuery(v): a render with a new query runs the old effect's cleanup, then the effect
SetQueryTo(b, v) ==
    IF v = b.query THEN b
    ELSE QueryEffect([b EXCEPT !.query = v, !.timers = EffectCleanup(@)])

\* setTimeout(() => onSearch(suggestion, filters), 100), in steps of 100 ms
SelectDelay == 1

\* SearchBar.handleSuggestionSelect: the timer's callback closes over the suggestion and
\* over the filters of the render the handler belongs to
HandleSuggestionSelect(b, suggestion) ==
    SetQueryTo([b EXCEPT !.showSuggestions = FALSE,
                         !.timers = Append(@, [kind |-> "select", left |-> SelectDelay,
                                               q |-> suggestion, ref |-> FALSE,
                                               filters |-> b.filters])],
               suggestion)

\* ---- the dashboard's search session, and its handlers as functions on it
Session == [isSearchOpen |-> isSearchOpen, searchResults |-> searchResults,
            isSearching |-> isSearching, searchQuery |-> searchQuery,
            searchFilters |-> searchFilters, inflight |-> searchInflight, wire |-> <<>>]

\* searchAPI.globalSearch(query, filters, 100) as Dashboard.handleSearch calls it
GlobalSearchRequest(q, f) ==
    SearchRequest("globalSearch", "/search/global", Str(q), f, Num(100),
                  GlobalSearchParams(Str(q), f, Num(100)))

\* Dashboard.handleSearch up to its await; viaBar: SearchBar.handleSearch awaits it
DashHandleSearch(d, q, f, viaBar) ==
    LET req == GlobalSearchRequest(q, f)
    IN  [d EXCEPT !.isSearching = TRUE, !.searchQuery = q, !.searchFilters = f,
                  !.inflight = Append(@, [req |-> req, viaBar |-> viaBar, gone |-> FALSE]),
                  !.wire = Append(@, req)]

\* Dashboard.handleFiltersChange
HandleFiltersChange(d, newFilters) ==
    LET d1 == [d EXCEPT !.searchFilters = newFilters]
    IN  IF d.searchQuery # <<>> \/ SomeFilterSet(newFilters)
        THEN DashHandleSearch(d1, d.searchQuery, newFilters, FALSE)
        ELSE d1

\* Dashboard.handleToggleSearch
HandleToggleSearch(d) ==
    IF d.isSearchOpen
    THEN [d EXCEPT !.isSearchOpen = FALSE, !.searchResults = Null, !.searchQuery = <<>>,
                   !.searchFilters = EmptyObject]
    ELSE [d EXCEPT !.isSearchOpen = TRUE]

\* the useState initial values of the search session
SessionInitial ==
    [isSearchOpen |-> FALSE, searchResults |-> Null, isSearching |-> FALSE, searchQuery |-> <<>>,
     searchFilters |-> EmptyObject, inflight |-> <<>>, wire |-> <<>>]

\* the bundle the backend answers a search with, and the one a failed search installs
ServerBundle(req, n) ==
    [t |-> "bundle", answers |-> [query |-> req.query, filters |-> req.filters],
     total |-> Undef,
     results |-> [total |-> n, metrics |-> [i \in 1..n |-> <<"metrics", i>>],
                  alerts |-> <<>>, predictions |-> <<>>]]
\* setSearchResults({ results: { total: 0, metrics: [], alerts: [], predictions: [] } })
FailedBundle ==
    [t |-> "bundle", total |-> Undef,
     results |-> [total |-> 0, metrics |-> <<>>, alerts |-> <<>>, predictions |-> <<>>]]

SearchOutcomes(req) == Failures \cup {OkOutcome(ServerBundle(req, n)) : n \in {0, 3}}

\* ---- SearchBar's filter handlers: the pair of the bar and the session they leave
Both(b, d) == [b |-> b, d |-> d]

\* SearchBar.updateFilter
UpdateFilter(b, d, key, value) ==
    LET newFilters == With(b.filters, key, value)
    IN  Both([b EXCEPT !.filters = newFilters], HandleFiltersChange(d, newFilters))

\* filters[type] || []
CurrentTags(f, type) == IF Truthy(Get(f, type)) THEN Get(f, type).items ELSE <<>>
Includes(list, value) == \E i \in DOMAIN list : list[i] = value

\* an addFilterTag that puts the new tag first
AddFilterTag_prepends(b, d, type, value) ==
    IF type \in ListFields /\ ~Includes(CurrentTags(b.filters, type), value)
    THEN UpdateFilter(b, d, type, Arr(<<value>> \o CurrentTags(b.filters, type)))
    ELSE Both(b, d)

\* SearchBar.addFilterTag
AddFilterTag(b, d, type, value) ==
    IF type \in ListFields /\ ~Includes(CurrentTags(b.filters, type), value)
    THEN UpdateFilter(b, d, type, Arr(Append(CurrentTags(b.filters, type), value)))
    ELSE Both(b, d)

\* SearchBar.removeFilterTag
RemoveFilterTag(b, d, type, value) ==
    IF type \in ListFields
    THEN UpdateFilter(b, d, type,
                      Arr(SelectSeq(CurrentTags(b.filters, type), LAMBDA item : item # value)))
    ELSE UpdateFilter(b, d, type, Str(<<>>))

(***************************************************************************)
(* The dashboard's snapshot and its refreshing (Dashboard.jsx)             *)
(*                                                                         *)
(* The refresh interval is counted in steps of 10 s.  An interval timer    *)
(* carries the flag own while the effect that created it is the current    *)
(* one: that effect's cleanup, clearInterval(interval), removes it.        *)
(***************************************************************************)
\* setInterval(() => fetchData(), 30000), in steps of 10 s
Interval == 3

\* getDashboardData() requests in flight at once
MaxDashInflight == 2
\* how long one interval is followed
MaxAge == 6

\* the points of the longest historical series a snapshot carries
MaxSeries == 24

\* one point of data.historical
HistoricalPoint(i) ==
    [time |-> <<ToString(i), ":00">>, traffic |-> Num(40 + i), aqi |-> Num(100 + i),
     energy |-> Num(60 + i)]
\* the series of an answer: the full day, or no point yet
Historical(rev) == IF rev = 1 THEN [i \in 1..MaxSeries |-> HistoricalPoint(i)] ELSE <<>>

\* the snapshot GET /dashboard/{state}/{city} answers with; rev tells two answers apart
Snapshot(state, city, rev) ==
    [t |-> "snapshot", state |-> state, city |-> city, rev |-> rev, historical |-> Historical(rev)]
SnapshotRevs == {1, 2}
DashFailures == {f \in Failures : f.kind = "network" \/ Truthy(f.detail)}
DashOutcomes(req) ==
    DashFailures \cup {OkOutcome(Snapshot(req.state, req.city, rev)) : rev \in SnapshotRevs}

DashOp(name) == [name |-> name]
\* what a response brought: the payload, or a failure
Arrived(o) == IF o.ok THEN o.data ELSE [t |-> "failure"]
\* the settling of request i of the requests in flight, with what arrived for a
\* mounted dashboard, whether a request issued earlier was still in flight, and
\* whether the request was never overlapped
SettleOp(inflight, i, o) ==
    [name |-> "fetchSettle",
     arrived |-> IF inflight[i].gone THEN Null ELSE Arrived(o),
     overtook |-> ~inflight[i].gone /\ \E k \in DOMAIN inflight : k < i /\ ~inflight[k].gone,
     alone |-> ~inflight[i].gone /\ inflight[i].alone]
NoRefresh == [age |-> 0, fetches |-> 0]

\* ---- the dashboard's state, and its handlers as functions on it
Dash == [mounted |-> dashMounted, data |-> data, isLoading |-> isLoading,
         autoRefresh |-> autoRefresh, error |-> error, isOnline |-> isOnline,
         intervals |-> intervals, inflight |-> dashInflight, refresh |-> refresh,
         netUp |-> netUp, op |-> dashOp]

\* the useState initial values of Dashboard
DashInitial ==
    [mounted |-> FALSE, data |-> Null, isLoading |-> FALSE, autoRefresh |-> TRUE, error |-> Null,
     isOnline |-> TRUE, intervals |-> <<>>, inflight |-> <<>>, refresh |-> NoRefresh,
     netUp |-> TRUE, op |-> DashOp("unmount")]

\* the requests of the mounted dashboard, marked as overlapped by another one
Overlapped(inflight) ==
    [i \in DOMAIN inflight |->
        IF inflight[i].gone THEN inflight[i] ELSE [inflight[i] EXCEPT !.alone = FALSE]]

\* a fetchData that leaves the error of the last failure in place
FetchData_keepsError(r, state, city, showLoadingToast) ==
    [r EXCEPT !.isLoading = TRUE,
              !.inflight = Append(Overlapped(@),
                                  [state |-> state, city |-> city, toast |-> showLoadingToast,
                                   gone |-> FALSE,
                                   alone |-> \A i \in DOMAIN @ : @[i].gone])]

\* fetchData up to its await: dashboardAPI.getDashboardData(selectedState, selectedCity)
\* (kept beside the request: gone, its dashboard has unmounted; alone, no other
\* request of its dashboard has been in flight with it)
FetchData(r, state, city, showLoadingToast) ==
    [r EXCEPT !.isLoading = TRUE, !.error = Null,
              !.inflight = Append(Overlapped(@),
                                  [state |-> state, city |-> city, toast |-> showLoadingToast,
                                   gone |-> FALSE,
                                   alone |-> \A i \in DOMAIN @ : @[i].gone])]

\* a fetch that gives up when the dashboard has moved on
FetchDataSettle_aborts(r, i, o) ==
    IF r.inflight[i].gone \/ ~r.autoRefresh
    THEN [r EXCEPT !.inflight = Without(@, i)]
    ELSE IF GetDashboardDataSettle(o).kind = "resolved"
    THEN [r EXCEPT !.data = GetDashboardDataSettle(o).value, !.isOnline = TRUE,
                   !.isLoading = FALSE, !.inflight = Without(@, i)]
    ELSE [r EXCEPT !.error = Str(GetDashboardDataSettle(o).message), !.isOnline = FALSE,
                   !.isLoading = FALSE, !.inflight = Without(@, i)]

\* a fetch whose response is dropped while a request issued after it is in flight
FetchDataSettle_issuedLastWins(r, i, o) ==
    IF r.inflight[i].gone \/ \E k \in DOMAIN r.inflight : k > i /\ ~r.inflight[k].gone
    THEN [r EXCEPT !.inflight = Without(@, i)]
    ELSE IF GetDashboardDataSettle(o).kind = "resolved"
    THEN [r EXCEPT !.data = GetDashboardDataSettle(o).value, !.isOnline = TRUE,
                   !.isLoading = FALSE, !.inflight = Without(@, i)]
    ELSE [r EXCEPT !.error = Str(GetDashboardDataSettle(o).message), !.isOnline = FALSE,
                   !.isLoading = FALSE, !.inflight = Without(@, i)]

\* a fetch that patches the held snapshot with the answer instead of replacing it
FetchDataSettle_merges(r, i, o) ==
    IF r.inflight[i].gone
    THEN [r EXCEPT !.inflight = Without(@, i)]
    ELSE IF GetDashboardDataSettle(o).kind = "resolved"
    THEN [r EXCEPT !.data = IF @ # Null /\ GetDashboardDataSettle(o).value.historical = <<>>
                            THEN [GetDashboardDataSettle(o).value
                                  EXCEPT !.historical = r.data.historical]
                            ELSE GetDashboardDataSettle(o).value,
                   !.isOnline = TRUE, !.isLoading = FALSE, !.inflight = Without(@, i)]
    ELSE [r EXCEPT !.error = Str(GetDashboardDataSettle(o).message), !.isOnline = FALSE,
                   !.isLoading = FALSE, !.inflight = Without(@, i)]

\* fetchData after its await: try / catch / finally
FetchDataSettle(r, i, o) ==
    IF r.inflight[i].gone
    THEN [r EXCEPT !.inflight = Without(@, i)]
    ELSE IF GetDashboardDataSettle(o).kind = "resolved"
    THEN [r EXCEPT !.data = GetDashboardDataSettle(o).value, !.isOnline = TRUE,
                   !.isLoading = FALSE, !.inflight = Without(@, i)]
    ELSE [r EXCEPT !.error = Str(GetDashboardDataSettle(o).message), !.isOnline = FALSE,
                   !.isLoading = FALSE, !.inflight = Without(@, i)]

\* an auto-refresh effect that returns no cleanup
RefreshCleanup_none(timers) == timers

\* the auto-refresh effect's cleanup: return () => clearInterval(interval)
RefreshCleanup(timers) == SelectSeq(timers, LAMBDA t : ~t.own)

\* the body of useEffect(..., [autoRefresh, selectedCity, selectedState])
RefreshEffect(r) ==
    IF ~r.autoRefresh THEN r
    ELSE [r EXCEPT !.intervals = Append(@, [left |-> Interval, own |-> TRUE])]

\* setAutoRefresh(!autoRefresh): the render runs the old effect's cleanup, then the effect
ToggleAutoRefresh(r) ==
    RefreshEffect([r EXCEPT !.autoRefresh = ~@, !.intervals = RefreshCleanup(@),
                            !.refresh = NoRefresh])

\* the interval's callback: () => fetchData()
IntervalCallback(r, i, state, city) ==
    FetchData([r EXCEPT !.intervals[i].left = Interval, !.refresh.fetches = @ + 1],
              state, city, FALSE)

\* Dashboard.handleRefresh
HandleRefresh(r, state, city) == FetchData(r, state, city, TRUE)

\* a handleOnline that fetches whatever is held
HandleOnline_alwaysFetches(r, state, city) ==
    FetchData([r EXCEPT !.isOnline = TRUE], state, city, FALSE)

\* handleOnline: setIsOnline(true); if (!data) fetchData()
HandleOnline(r, state, city) ==
    IF r.data = Null THEN FetchData([r EXCEPT !.isOnline = TRUE], state, city, FALSE)
    ELSE [r EXCEPT !.isOnline = TRUE]

\* handleOffline
HandleOffline(r) == [r EXCEPT !.isOnline = FALSE]

\* ---- the CSV export
\* Array.prototype.join(sep) over an array of strings
RECURSIVE JoinWith(_, _)
JoinWith(items, sep) ==
    IF items = <<>> THEN <<>>
    ELSE IF Len(items) = 1 THEN items[1]
    ELSE items[1] \o <<sep>> \o JoinWith(Tail(items), sep)

\* `${point.time},${point.traffic},${point.aqi},${point.energy}`
CsvRow(point) ==
    point.time \o <<",">> \o ToText(point.traffic) \o <<",">> \o ToText(point.aqi)
        \o <<",">> \o ToText(point.energy)

CsvHeader == <<"Time", ",", "Traffic %", ",", "AQI", ",", "Energy %">>

\* new Date().toISOString().split('T')[0]
Today == <<"2024-01-01">>
NoFile == [t |-> "none"]

\* an export that leaves the header line out
HandleExport_noHeader(snapshot, city) ==
    IF snapshot # Null
    THEN [t |-> "file", type |-> "text/csv",
          name |-> city \o <<"_dashboard_">> \o Today \o <<".csv">>,
          content |-> JoinWith([i \in DOMAIN snapshot.historical |->
                                    CsvRow(snapshot.historical[i])], "\n")]
    ELSE NoFile

\* Dashboard.handleExport: the file it downloads, if any
HandleExport(snapshot, city) ==
    IF snapshot # Null
    THEN [t |-> "file", type |-> "text/csv",
          name |-> city \o <<"_dashboard_">> \o Today \o <<".csv">>,
          content |-> JoinWith(<<CsvHeader>> \o [i \in DOMAIN snapshot.historical |->
                                                    CsvRow(snapshot.historical[i])], "\n")]
    ELSE NoFile

\* the export step, with the file it downloaded
ExportOp(file) == [name |-> "handleExport", file |-> file]

\* Dashboard mounts: the useState initial values, then the effects in order:
\* fetchData() of [selectedCity, selectedState], then the auto-refresh effect
DashboardMount(r, state, city) ==
    [RefreshEffect(FetchData([DashInitial EXCEPT !.mounted = TRUE, !.inflight = r.inflight,
                                                 !.netUp = r.netUp],
                             state, city, FALSE))
     EXCEPT !.op = DashOp("mount")]

\* Dashboard unmounts: its effects' cleanups run and its state is dropped; its
\* requests stay in flight
DashboardUnmount(r) ==
    [DashInitial EXCEPT !.intervals = RefreshCleanup(r.intervals), !.inflight = Gone(r.inflight),
                        !.netUp = r.netUp]

\* if (isLoading && !data) return the loading screen: nothing else is rendered
LoadingScreen(r) == r.isLoading /\ r.data = Null

\* ---- one step of the dashboard and the search bar it renders
\* SearchBar unmounts: the query effect's cleanup runs and the bar's state is dropped
BarUnmount(b) ==
    [BarInitial EXCEPT !.timers = EffectCleanup(b.timers), !.inflight = Gone(b.inflight),
                       !.op = BarOp("unmount", \E i \in DOMAIN b.timers : b.timers[i].ref)]

\* r, b and d are what the step's handler leaves of the dashboard, the bar and the
\* search session; the bar is rendered when the dashboard is, outside the loading screen
TreeCommit(r, b, d) ==
    LET up == r.mounted /\ ~LoadingScreen(r)
        bb == IF barMounted /\ ~up THEN BarUnmount(b)
              ELSE IF ~barMounted /\ up THEN [b EXCEPT !.op = BarOp("mount", FALSE)]
              ELSE b
        dd == IF barMounted /\ ~up
              THEN [d EXCEPT !.inflight = [i \in DOMAIN @ |-> [@[i] EXCEPT !.viaBar = FALSE]]]
              ELSE d
    IN  /\ dashMounted' = r.mounted
        /\ data' = r.data
        /\ isLoading' = r.isLoading
        /\ autoRefresh' = r.autoRefresh
        /\ error' = r.error
        /\ isOnline' = r.isOnline
        /\ intervals' = r.intervals
        /\ dashInflight' = r.inflight
        /\ refresh' = r.refresh
        /\ netUp' = r.netUp
        /\ dashOp' = r.op
        /\ barMounted' = up
        /\ query' = bb.query
        /\ suggestions' = bb.suggestions
        /\ showSuggestions' = bb.showSuggestions
        /\ barLoading' = bb.barLoading
        /\ filters' = bb.filters
        /\ barTimers' = bb.timers
        /\ sugInflight' = bb.inflight
        /\ sinceChange' = bb.sinceChange
        /\ burst' = bb.burst
        /\ tagBefore' = bb.tagBefore
        /\ barOp' = bb.op
        /\ isSearchOpen' = dd.isSearchOpen
        /\ searchResults' = dd.searchResults
        /\ isSearching' = dd.isSearching
        /\ searchQuery' = dd.searchQuery
        /\ searchFilters' = dd.searchFilters
        /\ searchInflight' = dd.inflight
        /\ wire' = dd.wire

\* what a render of the root does to the dashboard
DashboardFollows(shownAfter, state, city) ==
    LET shownBefore == DashboardShown(showDashboard, selectedState, selectedCity)
    IN  IF ~shownBefore /\ shownAfter
        THEN TreeCommit(DashboardMount(Dash, state, city), Bar,
                        [SessionInitial EXCEPT !.inflight = searchInflight])
        ELSE IF shownBefore /\ ~shownAfter
        THEN TreeCommit(DashboardUnmount(Dash), Bar,
                        [SessionInitial EXCEPT !.inflight = Gone(searchInflight)])
        ELSE UNCHANGED treeVars

(***************************************************************************)
(* The root component (App.js)                                             *)
(***************************************************************************)
\* ---- the root component's state and handlers, as functions on its state
AppState == [selectedState |-> selectedState, selectedCity |-> selectedCity,
             showDashboard |-> showDashboard, timers |-> appTimers]

\* App.handleStateChange
HandleStateChange(a, state) ==
    [a EXCEPT !.selectedState = state, !.selectedCity = <<>>, !.showDashboard = FALSE]

\* App.handleCityChange
HandleCityChange(a, city) ==
    [a EXCEPT !.selectedCity = city,
              !.timers = IF city # <<>> THEN Append(@, ShowDelay) ELSE @]

\* App.handleBackToSelection
HandleBackToSelection(a) == [a EXCEPT !.showDashboard = FALSE]

\* a selector that forwards the region and leaves the locality alone
SelectorHandleStateChange_stateOnly(a, state) == [a EXCEPT !.selectedState = state]

\* StateSelector.handleStateChange: onStateChange(state); onCityChange('')
SelectorHandleStateChange(a, state) == HandleCityChange(HandleStateChange(a, state), <<>>)

\* the root re-renders with the new state; the selector and the dashboard mount or
\* unmount with it
AppOp(name, arg) ==
    [name |-> name, arg |-> arg, before |-> [state |-> selectedState, city |-> selectedCity]]

AppCommit(a, op) ==
    /\ selectedState' = a.selectedState
    /\ selectedCity' = a.selectedCity
    /\ showDashboard' = a.showDashboard
    /\ appTimers' = a.timers
    /\ appOp' = op
    /\ UNCHANGED <<facadeVars, viewVars>>
    /\ SelectorFollows(DashboardShown(a.showDashboard, a.selectedState, a.selectedCity))
    /\ DashboardFollows(DashboardShown(a.showDashboard, a.selectedState, a.selectedCity),
                        a.selectedState, a.selectedCity)

\* the user picks a region in the State select
SelectRegion ==
    /\ SelectorUsable
    /\ \E i \in 1..Min(MaxRegionChoice, Len(statesAndCities)) :
         AppCommit(SelectorHandleStateChange(AppState, statesAndCities[i].name),
                   AppOp("handleStateChange", statesAndCities[i].name))

\* the user picks a locality in the City select, rendered once a region is selected
SelectCity ==
    /\ SelectorUsable
    /\ selectedState # <<>>
    /\ Len(appTimers) < MaxAppTimers
    /\ LET cities == CitiesOf(statesAndCities, selectedState)
       IN  \E i \in 1..Min(MaxCityChoice, Len(cities)) :
             AppCommit(HandleCityChange(AppState, cities[i]), AppOp("handleCityChange", cities[i]))

\* a 500 ms timer fires: setShowDashboard(true)
ShowTimerFires ==
    /\ appTimers # <<>>
    /\ Head(appTimers) = 0
    /\ AppCommit([AppState EXCEPT !.showDashboard = TRUE, !.timers = Tail(@)],
                 AppOp("showTimer", <<>>))

\* 100 ms pass
AppTick ==
    /\ appTimers # <<>>
    /\ \A i \in DOMAIN appTimers : appTimers[i] > 0
    /\ appTimers' = [i \in DOMAIN appTimers |-> appTimers[i] - 1]
    /\ UNCHANGED <<selectedState, selectedCity, showDashboard, appOp, selVars, facadeVars, treeVars,
                   viewVars>>

\* the dashboard's controls are on screen, and no timer is due
ControlsUsable ==
    /\ dashMounted /\ ~LoadingScreen(Dash) /\ ~isSearchOpen
    /\ \A i \in DOMAIN intervals : intervals[i].left > 0
    /\ ~DueTimer

\* the dashboard's Change Location button: onBack
BackToSelection ==
    /\ ControlsUsable
    /\ locStale < MaxStale
    /\ Len(dashInflight) < MaxDashInflight
    /\ AppCommit(HandleBackToSelection(AppState), AppOp("handleBackToSelection", <<>>))

\* the mounted selector's getLocations() settles
LocationsSettle ==
    /\ \E o \in LocationOutcomes : FetchLocationsSettle(o)
    /\ UNCHANGED <<appVars, facadeVars, treeVars, viewVars>>

\* a request of an unmounted selector settles: its setState calls change nothing
StaleLocationsSettle ==
    /\ locStale > 0
    /\ locStale' = locStale - 1
    /\ UNCHANGED <<selMounted, statesAndCities, selLoading, selError, locInflight, locFetches,
                   appVars, facadeVars, treeVars, viewVars>>

(***************************************************************************)
(* The steps of the search bar and the search session                      *)
(***************************************************************************)
\* ---- what the user picks in the filter popover
\* the tag buttons of the popover: cities, severities, categories (states has no control)
TagChoices ==
    {<<"cities", <<"Mumbai">>>>, <<"cities", <<"Delhi">>>>, <<"cities", <<"Bangalore">>>>,
     <<"severities", <<"high">>>>}
\* the date and range inputs: onChange={(e) => updateFilter(key, e.target.value)}
ScalarEdits ==
    {<<"dateFrom", Str(<<"2024-01-01">>)>>, <<"dateFrom", Str(<<>>)>>,
     <<"trafficMin", Str(<<"5">>)>>}
\* the badges of the active scalar filters, whose X calls removeFilterTag(key, value)
ScalarBadges == {"dateFrom", "dateTo"}

\* one step of the search bar and the session: b and d are what the handler leaves
BarCommit(b, d) ==
    /\ TreeCommit(Dash, b, d)
    /\ UNCHANGED notTree

PopoverUsable == barMounted /\ isSearchOpen /\ ~DueTimer
MaySearch == Len(searchInflight) < MaxFilterInflight

\* the order in which the tags of each list filter were added, kept beside the filters
OrderAfterAdd(type, value) ==
    [tagBefore EXCEPT ![type] =
        @ \cup {<<CurrentTags(filters, type)[i], value>> : i \in DOMAIN CurrentTags(filters, type)}]
OrderAfterRemove(type, value) ==
    [tagBefore EXCEPT ![type] = {pair \in @ : pair[1] # value /\ pair[2] # value}]

\* a tag button of an unselected tag: addFilterTag(type, value)
AddTag ==
    /\ PopoverUsable /\ MaySearch
    /\ \E choice \in TagChoices :
          LET type == choice[1]
              value == choice[2]
              after == AddFilterTag(Bar, Session, type, value)
          IN  /\ ~Includes(CurrentTags(filters, type), value)
              /\ BarCommit([after.b EXCEPT !.op = BarOp("addFilterTag", FALSE),
                                           !.tagBefore = OrderAfterAdd(type, value)],
                           after.d)

\* a tag button of a selected tag, or the X of its badge: removeFilterTag(type, value)
RemoveTag ==
    /\ PopoverUsable /\ MaySearch
    /\ \E choice \in TagChoices :
          LET type == choice[1]
              value == choice[2]
              after == RemoveFilterTag(Bar, Session, type, value)
          IN  /\ Includes(CurrentTags(filters, type), value)
              /\ BarCommit([after.b EXCEPT !.op = BarOp("removeFilterTag", FALSE),
                                           !.tagBefore = OrderAfterRemove(type, value)],
                           after.d)

\* a date or range input changes, or the X of a date badge is clicked
EditScalar ==
    /\ PopoverUsable /\ MaySearch
    /\ \/ \E edit \in ScalarEdits :
             LET after == UpdateFilter(Bar, Session, edit[1], edit[2])
             IN  /\ Get(filters, edit[1]) # edit[2]
                 /\ BarCommit([after.b EXCEPT !.op = BarOp("updateFilter", FALSE)], after.d)
       \/ \E key \in ScalarBadges :
             LET after == RemoveFilterTag(Bar, Session, key, Get(filters, key))
             IN  /\ Truthy(Get(filters, key))
                 /\ BarCommit([after.b EXCEPT !.op = BarOp("removeFilterTag", FALSE)], after.d)

\* Clear All Filters: setFilters({...the initial record}); onFiltersChange({})
ClearAllFilters ==
    /\ PopoverUsable /\ MaySearch
    /\ filters # InitialFilters \/ searchFilters # EmptyObject
    /\ BarCommit([Bar EXCEPT !.filters = InitialFilters, !.tagBefore = NoOrder,
                             !.op = BarOp("clearFilters", FALSE)],
                 HandleFiltersChange(Session, EmptyObject))

\* SearchBar.handleSearch up to its await (the search button, or Enter in the input)
SearchClick ==
    /\ PopoverUsable /\ MaySearch
    /\ ~(Trim(query) = <<>> /\ EveryFilterEmpty(filters))
    /\ BarCommit([Bar EXCEPT !.barLoading = TRUE, !.showSuggestions = FALSE,
                             !.op = BarOp("handleSearch", FALSE)],
                 DashHandleSearch(Session, Trim(query), filters, TRUE))

\* handleKeyPress: Enter in the input runs SearchBar.handleSearch, whether or not a
\* search is in flight
EnterSearch ==
    /\ PopoverUsable /\ Len(searchInflight) < MaxSearchInflight
    /\ ~(Trim(query) = <<>> /\ EveryFilterEmpty(filters))
    /\ BarCommit([Bar EXCEPT !.barLoading = TRUE, !.showSuggestions = FALSE,
                             !.op = BarOp("handleKeyPress", FALSE)],
                 DashHandleSearch(Session, Trim(query), filters, TRUE))

\* searchAPI.exportSearchResults(query, filters, 'json') as handleExport calls it
ExportRequest(q, f) ==
    SearchRequest("exportSearchResults", "/search/export", Str(q), f, Str(<<"json">>),
                  ExportSearchResultsParams(Str(q), f, Str(<<"json">>)))

\* SearchBar.handleExport up to its await; its answer is downloaded and changes no state
ExportClick ==
    /\ PopoverUsable
    /\ ~(Trim(query) = <<>> /\ EveryFilterEmpty(filters))
    /\ BarCommit([Bar EXCEPT !.op = BarOp("handleExport", FALSE)],
                 [Session EXCEPT !.wire = <<ExportRequest(query, filters)>>])

\* the search toggle of the header, or the X of the open bar: onToggleSearch
ToggleSearch ==
    /\ barMounted /\ ~DueTimer
    /\ BarCommit([Bar EXCEPT !.op = BarOp("toggleSearch", FALSE)], HandleToggleSearch(Session))

\* the settling of search i of the searches in flight, with what arrived for a mounted
\* dashboard and whether a search issued earlier was still in flight
SearchSettleOp(inflight, i, o) ==
    [name |-> "searchSettle", cleared |-> FALSE,
     arrived |-> IF inflight[i].gone THEN Null ELSE Arrived(o),
     overtook |-> ~inflight[i].gone /\ \E k \in DOMAIN inflight : k < i /\ ~inflight[k].gone]

\* Dashboard.handleSearch after its await: setSearchResults, or the empty bundle of its
\* catch, then finally setIsSearching(false)
HandleSearchSettle(d, i, o) ==
    IF d.inflight[i].gone
    THEN [d EXCEPT !.inflight = Without(@, i)]
    ELSE [d EXCEPT !.searchResults = IF GlobalSearchSettle(o).kind = "resolved"
                                     THEN GlobalSearchSettle(o).value ELSE FailedBundle,
                   !.isSearching = FALSE,
                   !.inflight = Without(@, i)]

\* a globalSearch() of handleSearch settles; then the finally of SearchBar.handleSearch
\* runs when the bar awaited it
SearchSettle ==
    /\ ~DueTimer
    /\ \E i \in DOMAIN searchInflight :
       \E o \in SearchOutcomes(searchInflight[i].req) :
          BarCommit(IF searchInflight[i].viaBar
                    THEN [Bar EXCEPT !.barLoading = FALSE, !.op = SearchSettleOp(searchInflight, i, o)]
                    ELSE [Bar EXCEPT !.op = SearchSettleOp(searchInflight, i, o)],
                    HandleSearchSettle(Session, i, o))

\* ---- the suggestions of the input field
\* what the backend suggests
BarSuggestionLists == {Arr(<<>>), Arr(<< <<"a", "a">>, <<"a", "b">> >>)}
BarSuggestionOutcomes == Failures \cup {OkOutcome(list) : list \in BarSuggestionLists}

\* searchAPI.getSuggestions(query, 8) as the debounce callback calls it
SuggestionsRequest(q) ==
    SearchRequest("getSuggestions", "/search/suggestions", Str(q), EmptyObject, Num(8),
                  GetSuggestionsParams(Str(q), Num(8)))

\* the run of changes of the input that are less than 300 ms apart, kept beside it
BurstAfterChange(v) ==
    IF sinceChange >= Debounce \/ ~burst.ok
    THEN [changes |-> 1, ok |-> Len(v) >= 2, fetches |-> 0, lastFetch |-> NoBurst.lastFetch]
    ELSE [burst EXCEPT !.changes = Min(@ + 1, 2), !.ok = @ /\ Len(v) >= 2]

\* the input's onChange: setQuery(e.target.value), and the effect of the render it causes
SetQuery ==
    /\ PopoverUsable
    /\ \E v \in QueryValues \ {query} :
          BarCommit([SetQueryTo(Bar, v) EXCEPT
                        !.sinceChange = 0,
                        !.burst = BurstAfterChange(v),
                        !.op = BarOp("setQuery", \E i \in DOMAIN barTimers : barTimers[i].ref)],
                    Session)

\* the X of the input, rendered while the query is not empty: clearSearch, that is
\* setQuery(''); setSuggestions([]); setShowSuggestions(false); onSearch('', {})
ClearSearch ==
    /\ PopoverUsable /\ MaySearch
    /\ query # <<>>
    /\ BarCommit([SetQueryTo(Bar, <<>>) EXCEPT
                     !.suggestions = <<>>, !.showSuggestions = FALSE,
                     !.sinceChange = 0,
                     !.burst = BurstAfterChange(<<>>),
                     !.op = BarOp("clearSearch", \E i \in DOMAIN barTimers : barTimers[i].ref)],
                 DashHandleSearch(Session, <<>>, EmptyObject, FALSE))

\* 100 ms pass with no timer due
BarTick ==
    /\ ~DueTimer
    /\ barTimers # <<>> \/ (barMounted /\ sinceChange < Debounce)
    /\ BarCommit([Bar EXCEPT !.timers = [i \in DOMAIN @ |-> [@[i] EXCEPT !.left = @ - 1]],
                             !.sinceChange = Min(@ + 1, Debounce),
                             !.op = BarOp("tick", FALSE)],
                 Session)

\* the debounce callback runs up to its await: searchAPI.getSuggestions(query, 8)
DebounceFires ==
    /\ Len(sugInflight) < MaxSugInflight
    /\ \E i \in DOMAIN barTimers :
          /\ barTimers[i].kind = "debounce" /\ barTimers[i].left = 0
          /\ BarCommit([Bar EXCEPT
                           !.timers = Without(@, i),
                           !.inflight = Append(@, [q |-> barTimers[i].q, gone |-> FALSE]),
                           !.burst = [@ EXCEPT !.fetches = Min(@ + 1, 2),
                                               !.lastFetch = [q |-> barTimers[i].q,
                                                              at |-> sinceChange]],
                           !.op = BarOp("debounceFires", FALSE)],
                       [Session EXCEPT !.wire = <<SuggestionsRequest(barTimers[i].q)>>])

\* the debounce callback after its await: setSuggestions(results);
\* setShowSuggestions(true), or its catch, which only warns
DebounceSettle(b, i, o) ==
    IF ~b.inflight[i].gone /\ GetSuggestionsSettle(o).kind = "resolved"
    THEN [b EXCEPT !.suggestions = GetSuggestionsSettle(o).value.items,
                   !.showSuggestions = TRUE, !.inflight = Without(@, i)]
    ELSE [b EXCEPT !.inflight = Without(@, i)]

\* a getSuggestions() settles
SuggestionsSettle ==
    /\ ~DueTimer
    /\ \E i \in DOMAIN sugInflight :
       \E o \in BarSuggestionOutcomes :
          BarCommit([DebounceSettle(Bar, i, o) EXCEPT !.op = BarOp("suggestionsSettle", FALSE)],
                    Session)

\* a row of the suggestions dropdown: handleSuggestionSelect(suggestion)
SelectSuggestion ==
    /\ PopoverUsable
    /\ showSuggestions /\ suggestions # <<>>
    /\ \A i \in DOMAIN barTimers : barTimers[i].kind # "select"
    /\ \E i \in DOMAIN suggestions :
          BarCommit([HandleSuggestionSelect(Bar, suggestions[i]) EXCEPT
                        !.sinceChange = IF suggestions[i] = query THEN @ ELSE 0,
                        !.burst = IF suggestions[i] = query THEN @
                                  ELSE BurstAfterChange(suggestions[i]),
                        !.op = BarOp("handleSuggestionSelect",
                                     suggestions[i] # query
                                         /\ \E k \in DOMAIN barTimers : barTimers[k].ref)],
                    Session)

\* the 100 ms of a selection are over: onSearch(suggestion, filters), which is
\* Dashboard.handleSearch up to its await; nothing awaits it
SelectTimerFires ==
    /\ MaySearch
    /\ \E i \in DOMAIN barTimers :
          /\ barTimers[i].kind = "select" /\ barTimers[i].left = 0
          /\ BarCommit([Bar EXCEPT !.timers = Without(@, i),
                                   !.op = [name |-> "selectFires", cleared |-> FALSE,
                                           q |-> barTimers[i].q]],
                       IF dashMounted
                       THEN DashHandleSearch([Session EXCEPT !.wire = <<>>],
                                             barTimers[i].q, barTimers[i].filters, FALSE)
                       ELSE [Session EXCEPT
                                !.inflight = Append(@, [req |-> GlobalSearchRequest(
                                                                    barTimers[i].q,
                                                                    barTimers[i].filters),
                                                        viaBar |-> FALSE, gone |-> TRUE]),
                                !.wire = <<GlobalSearchRequest(barTimers[i].q,
                                                               barTimers[i].filters)>>])

(***************************************************************************)
(* The steps of the dashboard's refreshing                                 *)
(***************************************************************************)
\* one step of the dashboard: r is what the handler leaves
DashCommit(r) ==
    /\ TreeCommit(r, Bar, Session)
    /\ UNCHANGED notTree

MayFetch == Len(dashInflight) < MaxDashInflight
DueInterval == \E i \in DOMAIN intervals : intervals[i].left = 0

\* the auto-refresh button: setAutoRefresh(!autoRefresh)
AutoRefreshClick ==
    /\ ControlsUsable
    /\ DashCommit([ToggleAutoRefresh(Dash) EXCEPT !.op = DashOp("toggleAutoRefresh")])

\* the Refresh button, Retry of the error banner, Try Again of the empty page
RefreshClick ==
    /\ ControlsUsable /\ ~isLoading /\ MayFetch
    /\ DashCommit([HandleRefresh(Dash, selectedState, selectedCity)
                   EXCEPT !.op = DashOp("handleRefresh")])

\* 30 s of an interval are over: its callback runs
IntervalFires ==
    /\ MayFetch
    /\ \E i \in DOMAIN intervals :
          /\ intervals[i].left = 0
          /\ DashCommit([IntervalCallback(Dash, i, selectedState, selectedCity)
                         EXCEPT !.op = DashOp("interval")])

\* 10 s pass with no timer pending that is due sooner
DashTick ==
    /\ intervals # <<>> /\ ~DueInterval
    /\ appTimers = <<>> /\ barTimers = <<>>
    /\ refresh.age < MaxAge
    /\ DashCommit([Dash EXCEPT !.intervals = [i \in DOMAIN @ |-> [@[i] EXCEPT !.left = @ - 1]],
                               !.refresh.age = @ + 1,
                               !.op = DashOp("tick")])

\* a getDashboardData() settles
DashFetchSettle ==
    /\ ~DueInterval
    /\ \E i \in DOMAIN dashInflight :
       \E o \in DashOutcomes(dashInflight[i]) :
          DashCommit([FetchDataSettle(Dash, i, o) EXCEPT !.op = SettleOp(dashInflight, i, o)])

\* the browser comes back online; the dashboard, when mounted, is listening
Online ==
    /\ ~netUp /\ ~DueInterval
    /\ dashMounted /\ data = Null => MayFetch
    /\ DashCommit(IF dashMounted
                  THEN [HandleOnline(Dash, selectedState, selectedCity)
                        EXCEPT !.netUp = TRUE, !.op = DashOp("online")]
                  ELSE [Dash EXCEPT !.netUp = TRUE])

\* the browser goes offline
Offline ==
    /\ netUp /\ ~DueInterval
    /\ DashCommit(IF dashMounted
                  THEN [HandleOffline(Dash) EXCEPT !.netUp = FALSE, !.op = DashOp("offline")]
                  ELSE [Dash EXCEPT !.netUp = FALSE])

\* the Export CSV button, disabled while no snapshot is held
ExportCsvClick ==
    /\ ControlsUsable /\ data # Null
    /\ DashCommit([Dash EXCEPT !.op = ExportOp(HandleExport(data, selectedCity))])

(***************************************************************************)
(* The results view (SearchResults)                                        *)
(*                                                                         *)
(* The view is followed on its own: it is given a bundle as its results    *)
(* prop, with isLoading false, and keeps the selected tab.                 *)
(***************************************************************************)
\* the items of the fullest bucket of a bundle
MaxBucket == 4

Tabs == {"all", "metrics", "alerts", "predictions"}
Buckets == {"metrics", "alerts", "predictions"}

Items(bucket, n) == [i \in 1..n |-> <<bucket, i>>]
\* the bundles GET /search/global answers with
BundleInputs ==
    {[t |-> "bundle", total |-> top,
      results |-> [total |-> m + a + q, metrics |-> Items("metrics", m),
                   alerts |-> Items("alerts", a), predictions |-> Items("predictions", q)]] :
        m \in 0..MaxBucket, a \in 0..MaxBucket, q \in 0..MaxBucket, top \in {Undef, Num(0)}}

\* Array.prototype.slice(0, n)
Slice(list, n) == SubSeq(list, 1, Min(n, Len(list)))

\* a cap of two items for every bucket
AllTabCap_two(bucket) == 2

\* the .slice(0, n) of each bucket of the 'all' tab, and the count its button tests
AllTabCap(bucket) == IF bucket = "predictions" THEN 2 ELSE 3

\* <TabsContent value="all">: per bucket, its section with the first items and the
\* View All button
AllTabContent(bundle) ==
    [bucket \in Buckets |->
        LET count == Len(bundle.results[bucket])
        IN  [shown |-> count > 0,
             items |-> IF count > 0 THEN Slice(bundle.results[bucket], AllTabCap(bucket))
                       ELSE <<>>,
             viewAll |-> count > 0 /\ count > AllTabCap(bucket)]]

\* what SearchResults renders of a bundle under a selected tab
Render(bundle, tab) ==
    IF bundle = Null \/ bundle.total = Num(0)
    THEN [screen |-> "noResults"]
    ELSE IF tab = "all"
    THEN [screen |-> "tabs", tab |-> tab, sections |-> AllTabContent(bundle)]
    ELSE [screen |-> "tabs", tab |-> tab, items |-> bundle.results[tab]]

ViewOp(name, bucket) == [name |-> name, bucket |-> bucket]

ViewInit ==
    /\ resultsProp = Null
    /\ selectedTab = "all"
    /\ tabView = Render(Null, "all")
    /\ viewOp = ViewOp("mount", "all")

ViewCommit(bundle, tab, op) ==
    /\ resultsProp' = bundle
    /\ selectedTab' = tab
    /\ tabView' = Render(bundle, tab)
    /\ viewOp' = op
    /\ UNCHANGED notView

\* a View All button of the 'all' tab: setSelectedTab(bucket)
ViewAll ==
    /\ tabView.screen = "tabs" /\ tabView.tab = "all"
    /\ \E bucket \in Buckets :
          /\ tabView.sections[bucket].viewAll
          /\ ViewCommit(resultsProp, bucket, ViewOp("viewAll", bucket))

\* a tab trigger: onValueChange={setSelectedTab}
SelectTab ==
    /\ tabView.screen = "tabs"
    /\ \E tab \in Tabs \ {selectedTab} : ViewCommit(resultsProp, tab, ViewOp("selectTab", tab))

\* the view is given the bundle of another search; it keeps its selected tab
ResultsArrive ==
    \E bundle \in BundleInputs \ {resultsProp} :
        ViewCommit(bundle, selectedTab, ViewOp("results", selectedTab))

(***************************************************************************)
(* Specifications                                                          *)
(***************************************************************************)
AppInit ==
    /\ selectedState = <<>>
    /\ selectedCity = <<>>
    /\ showDashboard = FALSE
    /\ appTimers = <<>>
    /\ appOp = [name |-> "none", arg |-> <<>>, before |-> [state |-> <<>>, city |-> <<>>]]

SelectorInit ==
    /\ selMounted = TRUE
    /\ statesAndCities = EmptyDirectory
    /\ selLoading = TRUE
    /\ selError = Undef
    /\ locInflight = TRUE
    /\ locStale = 0
    /\ locFetches = 1

\* the dashboard, the bar and the session as given
TreeIs(r, b, d) ==
    /\ dashMounted = r.mounted
    /\ data = r.data
    /\ isLoading = r.isLoading
    /\ autoRefresh = r.autoRefresh
    /\ error = r.error
    /\ isOnline = r.isOnline
    /\ intervals = r.intervals
    /\ dashInflight = r.inflight
    /\ refresh = r.refresh
    /\ netUp = r.netUp
    /\ dashOp = r.op
    /\ barMounted = (r.mounted /\ ~LoadingScreen(r))
    /\ query = b.query
    /\ suggestions = b.suggestions
    /\ showSuggestions = b.showSuggestions
    /\ barLoading = b.barLoading
    /\ filters = b.filters
    /\ barTimers = b.timers
    /\ sugInflight = b.inflight
    /\ sinceChange = b.sinceChange
    /\ burst = b.burst
    /\ tagBefore = b.tagBefore
    /\ barOp = b.op
    /\ isSearchOpen = d.isSearchOpen
    /\ searchResults = d.searchResults
    /\ isSearching = d.isSearching
    /\ searchQuery = d.searchQuery
    /\ searchFilters = d.searchFilters
    /\ searchInflight = d.inflight
    /\ wire = d.wire

\* the page as it loads: the selection page, its location request in flight
Init == FacadeInit /\ ViewInit /\ AppInit /\ SelectorInit /\ TreeIs(DashInitial, BarInitial, SessionInitial)

\* the dashboard of Mumbai, Maharashtra, shown after the 500 ms of the selection
ShownInit ==
    /\ selectedState = <<"Maharashtra">>
    /\ selectedCity = <<"Mumbai">>
    /\ showDashboard = TRUE
    /\ appTimers = <<>>
    /\ appOp = [name |-> "showTimer", arg |-> <<>>,
                before |-> [state |-> <<"Maharashtra">>, city |-> <<"Mumbai">>]]
    /\ selMounted = FALSE
    /\ statesAndCities = EmptyDirectory
    /\ selLoading = TRUE
    /\ selError = Undef
    /\ locInflight = FALSE
    /\ locStale = 0
    /\ locFetches = 0

\* that dashboard once its first snapshot has arrived
LoadedDash ==
    [DashInitial EXCEPT !.mounted = TRUE,
                        !.data = Snapshot(<<"Maharashtra">>, <<"Mumbai">>, 1),
                        !.intervals = <<[left |-> Interval, own |-> TRUE]>>,
                        !.op = [name |-> "fetchSettle",
                                arrived |-> Snapshot(<<"Maharashtra">>, <<"Mumbai">>, 1),
                                overtook |-> FALSE, alone |-> TRUE]]

\* the bar once the user has typed one character and waited
TypedBar ==
    [BarInitial EXCEPT !.query = <<"a">>,
                       !.burst = [NoBurst EXCEPT !.changes = 1],
                       !.op = BarOp("tick", FALSE)]
OpenSession == [SessionInitial EXCEPT !.isSearchOpen = TRUE]

\* the loaded dashboard with the bar as mounted
InitLoaded ==
    /\ FacadeInit /\ ViewInit /\ ShownInit
    /\ TreeIs(LoadedDash, [BarInitial EXCEPT !.op = BarOp("mount", FALSE)], SessionInitial)

\* the loaded dashboard with the search open, the input holding nothing or one character
InitFilters ==
    /\ FacadeInit /\ ViewInit /\ ShownInit
    /\ \E b \in {[BarInitial EXCEPT !.op = BarOp("toggleSearch", FALSE)], TypedBar} :
          TreeIs(LoadedDash, b, OpenSession)

\* the bar once "aa" has been typed and its suggestions have arrived
SuggestedBar ==
    [BarInitial EXCEPT !.query = <<"a", "a">>,
                       !.suggestions = << <<"a", "a">>, <<"a", "b">> >>,
                       !.showSuggestions = TRUE,
                       !.burst = [ok |-> TRUE, changes |-> 1, fetches |-> 1,
                                  lastFetch |-> [q |-> <<"a", "a">>, at |-> Debounce]],
                       !.op = BarOp("suggestionsSettle", FALSE)]

\* the loaded dashboard with the search open and the suggestions dropdown showing
InitSelect ==
    /\ FacadeInit /\ ViewInit /\ ShownInit
    /\ TreeIs(LoadedDash, SuggestedBar, OpenSession)

\* the search open, with one character typed or with the suggestions of "aa" showing
InitBar ==
    /\ FacadeInit /\ ViewInit /\ ShownInit
    /\ \/ TreeIs(LoadedDash, TypedBar, OpenSession)
       \/ TreeIs(LoadedDash, SuggestedBar, OpenSession)

\* the dashboard of Mumbai as it mounts, its first request in flight
MountedDash == DashboardMount(DashInitial, <<"Maharashtra">>, <<"Mumbai">>)

\* the dashboard as it mounts, or loaded with the search open and one character typed
InitDash ==
    /\ FacadeInit /\ ViewInit /\ ShownInit
    /\ \/ TreeIs(MountedDash, BarInitial, SessionInitial)
       \/ TreeIs(LoadedDash, TypedBar, OpenSession)

NextApp ==
    \/ SelectRegion
    \/ SelectCity
    \/ ShowTimerFires
    \/ AppTick
    \/ BackToSelection
    \/ LocationsSettle
    \/ StaleLocationsSettle
    \/ DashFetchSettle

NextFilters ==
    \/ ToggleSearch
    \/ AddTag
    \/ RemoveTag
    \/ EditScalar
    \/ ClearAllFilters
    \/ SearchClick
    \/ ExportClick
    \/ SearchSettle

NextSuggest ==
    \/ ToggleSearch
    \/ SetQuery
    \/ BarTick
    \/ DebounceFires
    \/ SuggestionsSettle
    \/ BackToSelection

NextRefresh ==
    \/ SelectRegion
    \/ SelectCity
    \/ ShowTimerFires
    \/ AppTick
    \/ BackToSelection
    \/ LocationsSettle
    \/ StaleLocationsSettle
    \/ DashFetchSettle
    \/ AutoRefreshClick
    \/ IntervalFires
    \/ DashTick

NextRace ==
    \/ RefreshClick
    \/ IntervalFires
    \/ DashTick
    \/ DashFetchSettle
    \/ EnterSearch
    \/ SearchSettle
    \/ ToggleSearch

NextDash ==
    \/ AutoRefreshClick
    \/ RefreshClick
    \/ IntervalFires
    \/ DashTick
    \/ DashFetchSettle
    \/ Online
    \/ Offline
    \/ ToggleSearch
    \/ SearchClick
    \/ SearchSettle
    \/ BackToSelection

NextExport ==
    \/ ExportCsvClick
    \/ RefreshClick
    \/ IntervalFires
    \/ DashTick
    \/ DashFetchSettle
    \/ ToggleSearch
    \/ BackToSelection

NextSelect ==
    \/ BarTick
    \/ DebounceFires
    \/ SuggestionsSettle
    \/ SelectSuggestion
    \/ SelectTimerFires
    \/ EditScalar
    \/ SearchSettle

NextBar ==
    \/ SearchClick
    \/ ClearSearch
    \/ SelectSuggestion
    \/ SelectTimerFires
    \/ EditScalar
    \/ ClearAllFilters
    \/ BarTick
    \/ DebounceFires
    \/ SuggestionsSettle
    \/ SearchSettle

NextView ==
    \/ ViewAll
    \/ SelectTab
    \/ ResultsArrive

\* the root component, from the page load
Spec == Init /\ [][NextApp]_vars

\* the facade, called with inputs of every shape
SpecFacade == Init /\ [][NextFacade]_vars

\* the filter popover and the searches it starts
SpecFilters == InitFilters /\ [][NextFilters]_vars

\* the input field and its suggestions
SpecSuggest == InitLoaded /\ [][NextSuggest]_vars

\* the auto-refresh interval, from the page load and across changes of the location
SpecRefresh == Init /\ [][NextRefresh]_vars

\* the dashboard's fetches, with the searches that overlap them
SpecDash == InitDash /\ [][NextDash]_vars

\* the fetches and the primary searches of one dashboard, overlapping
SpecRace == InitDash /\ [][NextRace]_vars

\* the suggestions dropdown, with the filter edits and searches around a selection
SpecSelect == InitSelect /\ [][NextSelect]_vars

\* every action of the search bar that can start a primary search
SpecBar == InitBar /\ [][NextBar]_vars

\* the results view, given bundles of every shape
SpecView == Init /\ [][NextView]_vars

\* the CSV export of the held snapshot
SpecExport == InitDash /\ [][NextExport]_vars

(***************************************************************************)
(* Claims about the facade's query construction                            *)
(***************************************************************************)
\* absent or empty, as a filter field can be: undefined, '' or []
IsEmptyField(x) == x = Undef \/ x = Str(<<>>) \/ x = Arr(<<>>)
AllEmpty(filterObj) == \A f \in FilterFields : IsEmptyField(Get(filterObj, f))
HasParam(params, key) == \E i \in DOMAIN params : params[i].k = key
SearchCallSent == apiCall.method \in SearchMethods

\* C1: in every search-style call, a filter field that is undefined, '' or []
\* contributes no parameter, and no filter parameter is sent with an empty value.
C1_EmptyFieldsOmitted ==
    SearchCallSent =>
        /\ \A i \in DOMAIN apiCall.params :
               apiCall.params[i].k \in FilterParamKeys => apiCall.params[i].v # <<>>
        /\ \A f \in MethodFields(apiCall.method) :
               IsEmptyField(Get(apiCall.filters, f)) => ~HasParam(apiCall.params, ParamKey(f))

\* C2 as stated: with every filter field empty or undefined and no query text, the
\* query string of a search-style call is the empty string.
C2_EmptyFiltersEmptyQueryString ==
    (SearchCallSent /\ AllEmpty(apiCall.filters) /\ ~Truthy(apiCall.query))
        => apiCall.qs = <<>>

\* the numeric bounds in the order the facade serializes them
BoundOrder == <<"trafficMin", "trafficMax", "aqiMin", "aqiMax", "energyMin", "energyMax">>
IsSentEmptyBound(call, f) == f \in MethodFields(call.method) /\ Get(call.filters, f) = Str(<<>>)
RECURSIVE EmptyBoundsFrom(_, _)
EmptyBoundsFrom(call, i) ==
    IF i > Len(BoundOrder) THEN <<>>
    ELSE (IF IsSentEmptyBound(call, BoundOrder[i])
          THEN << [k |-> ParamKey(BoundOrder[i]), v |-> <<>>] >> ELSE <<>>)
         \o EmptyBoundsFrom(call, i + 1)
TailKey(method) == IF method = "exportSearchResults" THEN "format" ELSE "size"

\* C2 as amended: with every filter field empty or undefined and no query text, the
\* query carries no q, list or date parameter: it is the size parameter (format for
\* the export) when that argument is not 0 or '', preceded only by one empty-valued
\* parameter per numeric bound that is '' rather than undefined; so it is the
\* empty string only when that argument is 0 or '' and no numeric bound is ''.
C2_EmptyFiltersOnlySize ==
    (SearchCallSent /\ AllEmpty(apiCall.filters) /\ ~Truthy(apiCall.query))
        => /\ apiCall.params =
                EmptyBoundsFrom(apiCall, 1)
                \o (IF Truthy(apiCall.extra)
                    THEN << [k |-> TailKey(apiCall.method), v |-> ToText(apiCall.extra)] >>
                    ELSE <<>>)
           /\ apiCall.qs = <<>>
                <=> (~Truthy(apiCall.extra)
                     /\ \A f \in BoundFields : ~IsSentEmptyBound(apiCall, f))

\* a call with every field empty, some of them present as [] or '', whose query
\* string is the size parameter alone
C2_Witness ==
    /\ apiCall.method = "searchAlerts"
    /\ AllEmpty(apiCall.filters)
    /\ apiCall.filters = InitialFilters
    /\ ~Truthy(apiCall.query)
    /\ apiCall.qs = <<"size", "=", "100">>

(***************************************************************************)
(* Claims about how facade calls settle                                    *)
(***************************************************************************)
\* C7: when the suggestions request fails (network, timeout, error status),
\* getSuggestions resolves with the empty list; every other facade method rejects.
C7_SuggestionsAbsorbFailure ==
    (apiResult # NoResult /\ ~apiResult.outcome.ok) =>
        IF apiResult.method = "getSuggestions"
        THEN apiResult.settled = Resolved(Arr(<<>>))
        ELSE apiResult.settled.kind = "rejected"

C7_Witness ==
    /\ apiResult.method = "getSuggestions"
    /\ ~apiResult.outcome.ok
    /\ apiResult.outcome.kind = "status"
    /\ apiResult.settled.kind = "resolved"

(***************************************************************************)
(* Claims about the selection page                                         *)
(***************************************************************************)
\* C4: after the region-selection handler has run, selectedCity is '', whatever
\* the region and the locality were before, also when the region is the same.
C4_RegionResetsCity ==
    appOp.name = "handleStateChange" => (selectedCity = <<>> /\ selectedState = appOp.arg)

\* the same region selected again while a locality was selected
C4_Witness ==
    /\ appOp.name = "handleStateChange"
    /\ appOp.before.city # <<>>
    /\ appOp.before.state = appOp.arg

\* StateSelector's render: the loading card, or the selector with or without the notice
SelectorView ==
    IF selLoading THEN "loading"
    ELSE IF Truthy(selError) THEN "selector with notice" ELSE "selector"

\* C10: a mounted selector whose directory fetch failed holds the built-in directory
\* (8 regions, Maharashtra with Mumbai and Pune), has left the loading state and
\* offers its regions, and shows the failure as a notice beside the selector; a
\* mount issues the directory fetch exactly once.
C10_FallbackDirectory ==
    selMounted =>
        /\ locFetches = 1
        /\ locInflight => selLoading
        /\ (selError # Undef) =>
              /\ ~locInflight
              /\ ~selLoading
              /\ SelectorView = "selector with notice"
              /\ statesAndCities = FallbackDirectory
              /\ Len(statesAndCities) = 8
              /\ Cardinality(RegionNames(statesAndCities)) = 8
              /\ \E i \in DOMAIN statesAndCities :
                    /\ statesAndCities[i].name = <<"Maharashtra">>
                    /\ <<"Mumbai">> = statesAndCities[i].cities[1]
                    /\ <<"Pune">> = statesAndCities[i].cities[2]
              /\ ~DashboardShown(showDashboard, selectedState, selectedCity) => ENABLED SelectRegion

\* after a failed fetch, a locality only the built-in directory has was selected
C10_Witness ==
    /\ selMounted
    /\ selError # Undef
    /\ appOp.name = "handleCityChange"
    /\ selectedState = <<"Maharashtra">>
    /\ selectedCity = <<"Pune">>

(***************************************************************************)
(* Claims about the filter popover and the input field                     *)
(***************************************************************************)
\* a comma-joined parameter value, read back as the list the server sees
RECURSIVE SplitComma(_, _)
SplitComma(text, item) ==
    IF text = <<>> THEN <<item>>
    ELSE IF Head(text) = "," THEN <<item>> \o SplitComma(Tail(text), <<>>)
    ELSE SplitComma(Tail(text), item \o <<Head(text)>>)

ParamsOf(params, key) == SelectSeq(params, LAMBDA p : p.k = key)
InInsertionOrder(type, items) ==
    \A i, j \in DOMAIN items : i < j => <<items[i], items[j]>> \in tagBefore[type]

\* C3: every request a step of the popover sends carries, for each non-empty list
\* filter of the filters it was given, exactly one parameter whose comma-separated
\* value is the list, the lists follow the bar's filter state, and the tags of the
\* filter state stand in the order in which they were added
C3_ListsJoinedInInsertionOrder ==
    /\ \A type \in ListFields : InInsertionOrder(type, CurrentTags(filters, type))
    /\ \A n \in DOMAIN wire : \A type \in ListFields :
          LET items == CurrentTags(wire[n].filters, type)
              sent == ParamsOf(wire[n].params, ParamKey(type))
          IN  /\ items \in {<<>>, CurrentTags(filters, type)}
              /\ items # <<>> /\ wire[n].method # "getSuggestions" =>
                    /\ Len(sent) = 1
                    /\ SplitComma(sent[1].v, <<>>) = items
                    /\ InInsertionOrder(type, items)

\* C3 happens: after an add, a removal and another add, a search carries two cities
C3_Witness ==
    /\ barOp.name = "addFilterTag"
    /\ wire # <<>>
    /\ Len(ParamsOf(wire[1].params, "cities")) = 1
    /\ ParamsOf(wire[1].params, "cities")[1].v = <<"Delhi", ",", "Mumbai">>
    /\ <<<<"Delhi">>, <<"Mumbai">>>> \in tagBefore["cities"]

\* C5: at most one debounce timer is pending; a series of changes less than 300 ms
\* apart that all leave two characters or more causes at most one fetch, that fetch is
\* for the final value and is issued 300 ms after the last change, and once 300 ms
\* have passed it has been issued or its timer is due
C5_DebounceOneFetch ==
    /\ Len(DebounceTimers(barTimers)) <= 1
    /\ burst.ok =>
          /\ burst.fetches <= 1
          /\ burst.fetches = 1 =>
                burst.lastFetch = [q |-> query, at |-> Debounce]
          /\ barMounted /\ sinceChange = Debounce =>
                \/ burst.fetches = 1
                \/ \E i \in DOMAIN barTimers :
                      barTimers[i] = [kind |-> "debounce", left |-> 0, q |-> query, ref |-> TRUE]
          /\ burst.fetches = 0 /\ barMounted =>
                DebounceTimers(barTimers) =
                    <<[kind |-> "debounce", left |-> Debounce - sinceChange, q |-> query, ref |-> TRUE]>>

\* C5 happens: two changes less than 300 ms apart, and the one fetch has gone out
C5_Witness ==
    /\ burst.ok /\ burst.changes = 2 /\ burst.fetches = 1
    /\ barOp.name = "debounceFires"
    /\ wire = <<SuggestionsRequest(query)>>

\* C6: a change that leaves fewer than two characters leaves no debounce timer
\* pending, an empty suggestion list and a hidden dropdown; and a pending debounce
\* timer is always for the current query, which has two characters or more
C6_ShortQueryCancels ==
    /\ barOp.name = "setQuery" /\ Len(query) < 2 =>
          /\ DebounceTimers(barTimers) = <<>>
          /\ suggestions = <<>>
          /\ ~showSuggestions
    /\ \A i \in DOMAIN barTimers :
          barTimers[i].kind = "debounce" => barTimers[i].q = query /\ Len(query) >= 2

\* C6 happens: the query is shortened while a timer is pending and an earlier fetch is in flight
C6_Witness ==
    /\ barOp = BarOp("setQuery", TRUE)
    /\ Len(query) < 2
    /\ burst.changes = 2 /\ burst.fetches = 0
    /\ sugInflight # <<>>

(***************************************************************************)
(* Claims about the dashboard's refreshing                                 *)
(***************************************************************************)
\* C8: at most one interval timer is live; one is live exactly while the dashboard
\* is mounted with auto-refresh enabled; and after t seconds of such an interval
\* the scheduled fetches it has started number t over 30, rounded down, the last of
\* them still to start when its 30 s are just over
C8_OneIntervalOneFetchPer30s ==
    /\ Len(intervals) <= 1
    /\ intervals # <<>> <=> (dashMounted /\ autoRefresh)
    /\ \A i \in DOMAIN intervals :
          /\ intervals[i].own
          /\ intervals[i].left \in 0..Interval
          /\ refresh.fetches =
                (refresh.age \div Interval) - (IF intervals[i].left = 0 THEN 1 ELSE 0)
          /\ refresh.age % Interval = (Interval - intervals[i].left) % Interval

\* C8 happens: the interval of a second dashboard, mounted for another locality while
\* a request of the first one is still in flight, has started its first scheduled fetch
C8_Witness ==
    /\ dashOp.name = "interval"
    /\ refresh.fetches = 1
    /\ selectedCity = <<"Pune">>
    /\ \E i \in DOMAIN dashInflight : dashInflight[i].gone /\ dashInflight[i].city = <<"Mumbai">>

\* the requests in flight, without what is kept beside them
DashRequests ==
    [i \in DOMAIN dashInflight |->
        [state |-> dashInflight[i].state, city |-> dashInflight[i].city,
         toast |-> dashInflight[i].toast]]
SearchRequests == [i \in DOMAIN searchInflight |-> searchInflight[i].req]
Grows(before, after) ==
    Len(after) = Len(before) + 1 /\ SubSeq(after, 1, Len(before)) = before

\* dashboard request i leaves by settling: a mounted dashboard takes its snapshot
\* or its error, and clears the loading flag
DashFetchApplied(i) ==
    /\ DashRequests' = Without(DashRequests, i)
    /\ ~dashInflight[i].gone =>
          /\ ~isLoading'
          /\ \/ /\ data' \in {Snapshot(dashInflight[i].state, dashInflight[i].city, rev) :
                              rev \in SnapshotRevs}
                /\ isOnline' /\ error' = error
             \/ /\ error' # Null /\ error'.t = "string"
                /\ ~isOnline' /\ data' = data

\* search request i leaves by settling: a mounted dashboard takes its bundle, or the
\* empty bundle of a failed search, and clears the searching flag
SearchApplied(i) ==
    /\ SearchRequests' = Without(SearchRequests, i)
    /\ ~searchInflight[i].gone =>
          /\ ~isSearching'
          /\ \/ searchResults' = FailedBundle
             \/ /\ "answers" \in DOMAIN searchResults'
                /\ searchResults'.answers = [query |-> searchInflight[i].req.query,
                                             filters |-> searchInflight[i].req.filters]

\* C9: switching auto-refresh off leaves every request in flight as it is and leaves
\* no interval live; while it is off no interval is live and no scheduled fetch
\* starts; and a dashboard or search request leaves the requests in flight only by
\* settling, which in a mounted dashboard applies its result
C9_ToggleOffSparesInflight ==
    [][ /\ (dashMounted /\ dashMounted' /\ autoRefresh /\ ~autoRefresh') =>
              /\ dashInflight' = dashInflight
              /\ searchInflight' = searchInflight
              /\ intervals' = <<>>
        /\ ~autoRefresh =>
              /\ intervals = <<>>
              /\ ~(dashOp'.name = "interval" /\ Grows(DashRequests, DashRequests'))
        /\ \/ DashRequests' = DashRequests
           \/ Grows(DashRequests, DashRequests')
           \/ \E i \in DOMAIN dashInflight : DashFetchApplied(i)
        /\ \/ SearchRequests' = SearchRequests
           \/ Grows(SearchRequests, SearchRequests')
           \/ \E i \in DOMAIN searchInflight : SearchApplied(i)
      ]_vars

\* C9 happens: auto-refresh has just been switched off while a dashboard fetch and a
\* search were in flight
C9_Witness ==
    /\ dashOp.name = "toggleAutoRefresh"
    /\ ~autoRefresh
    /\ isLoading
    /\ \E i \in DOMAIN dashInflight : ~dashInflight[i].gone
    /\ \E i \in DOMAIN searchInflight : ~searchInflight[i].gone

(***************************************************************************)
(* Claims about the CSV export                                             *)
(***************************************************************************)
\* String.prototype.split(sep): the pieces of text between the separators
SepsOf(text, sep) == {i \in DOMAIN text : text[i] = sep}
NthSep(text, sep, n) ==
    CHOOSE i \in SepsOf(text, sep) : Cardinality({j \in SepsOf(text, sep) : j < i}) = n - 1
SplitOn(text, sep) ==
    LET count == Cardinality(SepsOf(text, sep))
        from(k) == IF k = 1 THEN 1 ELSE NthSep(text, sep, k - 1) + 1
        upto(k) == IF k = count + 1 THEN Len(text) ELSE NthSep(text, sep, k) - 1
    IN  [k \in 1..(count + 1) |-> SubSeq(text, from(k), upto(k))]
LinesOf(file) == SplitOn(file.content, "\n")
Exported == dashOp.name = "handleExport"

\* C11: the CSV exported from a held snapshot whose series has n points has n + 1
\* lines: the header, then one row time,traffic,aqi,energy per point in the order
\* of the series; with no snapshot held no file is produced.
C11_CsvHeaderAndRows ==
    /\ HandleExport(Null, selectedCity) = NoFile
    /\ Exported =>
          /\ data # Null
          /\ dashOp.file.t = "file"
          /\ LET lines == LinesOf(dashOp.file)
                 series == data.historical
             IN  /\ Len(lines) = Len(series) + 1
                 /\ lines[1] = CsvHeader
                 /\ \A i \in DOMAIN series :
                        lines[i + 1] = series[i].time \o <<",">> \o series[i].traffic.text
                                           \o <<",">> \o series[i].aqi.text
                                           \o <<",">> \o series[i].energy.text

\* a snapshot of 24 points has been exported as 25 lines
C11_Witness ==
    /\ Exported
    /\ Len(data.historical) = 24
    /\ Len(LinesOf(dashOp.file)) = 25

(***************************************************************************)
(* Claims about the searches the search bar starts                         *)
(***************************************************************************)
SelectTimers == SelectSeq(barTimers, LAMBDA t : t.kind = "select")

\* C12: selecting a suggestion sets the query to it and triggers exactly one primary
\* search for it, and that search carries the filter set that is current when the
\* search is issued.
C12_SelectionSearchesCurrentFilters ==
    /\ barOp.name = "handleSuggestionSelect" =>
          /\ Len(SelectTimers) = 1
          /\ query = SelectTimers[1].q
    /\ barOp.name = "selectFires" => wire = <<GlobalSearchRequest(barOp.q, filters)>>

\* two filter sets with the same non-empty fields
SameFilters(f, g) ==
    \A key \in FilterFields :
        \/ IsEmptyField(Get(f, key)) /\ IsEmptyField(Get(g, key))
        \/ Get(f, key) = Get(g, key)
FilterCommitted == barOp.name \in {"updateFilter", "addFilterTag", "removeFilterTag", "clearFilters"}

\* C13: committing a filter change while the search bar holds a non-empty query or
\* the resulting filter set has a non-empty field triggers exactly one primary search
\* at once, carrying the search bar's query and the updated filter set.
C13_FilterChangeSearchesBarQuery ==
    (FilterCommitted /\ (query # <<>> \/ ~AllEmpty(filters))) =>
        /\ Len(wire) = 1
        /\ wire[1].method = "globalSearch"
        /\ wire[1].query \in {Str(query), Str(Trim(query))}
        /\ SameFilters(wire[1].filters, filters)

\* C15: while the search panel is closed after a toggle, the dashboard holds no search
\* results, an empty search query and an empty filter set, also when a search that
\* was in flight at the closing resolves.
C15_ClosedPanelHoldsNothing ==
    ~isSearchOpen =>
        /\ searchResults = Null
        /\ searchQuery = <<>>
        /\ searchFilters = EmptyObject

(***************************************************************************)
(* Claims about the dashboard's connectivity, fetches and errors           *)
(***************************************************************************)
\* the mounted dashboard hears the browser come online, or go offline
HeardOnline == dashMounted /\ ~netUp /\ netUp'
HeardOffline == dashMounted /\ netUp /\ ~netUp'

\* C14: on an online event the connectivity flag becomes true and a dashboard fetch
\* is started if and only if no snapshot is held; on an offline event the flag
\* becomes false and the snapshot, the error, the loading flag, the auto-refresh
\* flag, the live interval and the requests in flight are left as they are.
C14_ConnectivityTransitions ==
    [][/\ HeardOnline =>
            /\ isOnline'
            /\ data' = data /\ autoRefresh' = autoRefresh /\ intervals' = intervals
            /\ IF data = Null
               THEN /\ dashInflight' = Append(Overlapped(dashInflight),
                                              [state |-> selectedState, city |-> selectedCity,
                                               toast |-> FALSE, gone |-> FALSE,
                                               alone |-> \A i \in DOMAIN dashInflight :
                                                            dashInflight[i].gone])
                    /\ isLoading' /\ error' = Null
               ELSE UNCHANGED <<dashInflight, isLoading, error>>
       /\ HeardOffline =>
            /\ ~isOnline'
            /\ UNCHANGED <<data, error, isLoading, autoRefresh, intervals, dashInflight>>
      ]_vars

\* the browser came back online while no snapshot was held, and a fetch was started
C14_Witness ==
    /\ dashOp.name = "online"
    /\ data = Null /\ isOnline /\ isLoading
    /\ \E i \in DOMAIN dashInflight : ~dashInflight[i].gone

\* the browser came back online while a snapshot was held, and nothing was fetched
C14_WitnessHeld ==
    /\ dashOp.name = "online"
    /\ data # Null /\ isOnline /\ dashInflight = <<>>

(***************************************************************************)
(* Claims about the errors of the facade                                   *)
(***************************************************************************)
\* the prefix each method puts before the cause
ErrorPrefix(method) ==
    CASE method = "getDashboardData" -> "Failed to fetch dashboard data: "
      [] method = "getLocations" -> "Failed to fetch locations: "
      [] method = "getRecentMetrics" -> "Failed to fetch metrics: "
      [] method = "getActiveAlerts" -> "Failed to fetch alerts: "
      [] method = "healthCheck" -> "Backend health check failed: "
      [] method = "globalSearch" -> "Global search failed: "
      [] method = "searchMetrics" -> "Metrics search failed: "
      [] method = "searchAlerts" -> "Alerts search failed: "
      [] method = "exportSearchResults" -> "Export failed: "
      [] OTHER -> ""

\* C16: every facade method other than getSuggestions, on any failure, rejects with
\* its prefix followed by the server's detail string when the response carries one,
\* and by the transport's message only when it does not.
C16_ErrorsPreferDetail ==
    (apiResult # NoResult /\ ~apiResult.outcome.ok /\ apiResult.method # "getSuggestions") =>
        apiResult.settled =
            Rejected(<<ErrorPrefix(apiResult.method)>>
                     \o (IF Truthy(apiResult.outcome.detail)
                         THEN ToText(apiResult.outcome.detail)
                         ELSE apiResult.outcome.message))

(***************************************************************************)
(* Claims about the results view                                           *)
(***************************************************************************)
IsPrefix(short, long) == Len(short) <= Len(long) /\ short = SubSeq(long, 1, Len(short))

\* C17: the 'all' tab shows the first items of each bucket, at most 3 metrics, 3
\* alerts and 2 predictions; a bucket shows its overflow action exactly when it holds
\* more items than its cap, and that action switches to the bucket's tab, which
\* shows every item of the bucket.
C17_AllTabCaps ==
    /\ (tabView.screen = "tabs" /\ selectedTab = "all") =>
          \A bucket \in Buckets :
             LET all == resultsProp.results[bucket]
                 cap == IF bucket = "predictions" THEN 2 ELSE 3
                 section == tabView.sections[bucket]
             IN  /\ IsPrefix(section.items, all)
                 /\ Len(section.items) = Min(cap, Len(all))
                 /\ section.viewAll <=> Len(all) > cap
    /\ viewOp.name = "viewAll" =>
          /\ selectedTab = viewOp.bucket
          /\ tabView.screen = "tabs" /\ tabView.tab = viewOp.bucket
          /\ tabView.items = resultsProp.results[viewOp.bucket]
          /\ Len(tabView.items) > (IF viewOp.bucket = "predictions" THEN 2 ELSE 3)

\* View All of a bucket of 3 predictions has switched to the predictions tab
C17_Witness ==
    /\ viewOp = ViewOp("viewAll", "predictions")
    /\ selectedTab = "predictions"
    /\ Len(tabView.items) = 3

\* ---- overlapping requests of one dashboard
\* C18: whichever dashboard fetch (or primary search) of the mounted dashboard a
\* response arrives for, and whether or not a request issued before it is still in
\* flight, the snapshot (or result bundle) held after its arrival is the payload of
\* that response: of two overlapping requests the one answered last is the one held.
C18_LastArrivalWins ==
    /\ (dashOp.name = "fetchSettle" /\ dashOp.arrived.t = "snapshot")
           => data = dashOp.arrived
    /\ (barOp.name = "searchSettle" /\ barOp.arrived.t = "bundle")
           => searchResults = barOp.arrived

\* a fetch and a search were each answered while a request issued before them was
\* still in flight, and their payloads are the ones held
C18_Witness ==
    /\ dashOp.name = "fetchSettle" /\ dashOp.overtook
    /\ dashOp.arrived.t = "snapshot" /\ data = dashOp.arrived
    /\ barOp.name = "searchSettle" /\ barOp.overtook
    /\ barOp.arrived.t = "bundle"
    /\ searchResults = barOp.arrived

\* ---- the life of the snapshot
\* the step appends a request of the mounted dashboard for the location selected after it
FetchStarted ==
    /\ Len(dashInflight') = Len(dashInflight) + 1
    /\ LET new == dashInflight'[Len(dashInflight')]
       IN  /\ new.state = selectedState' /\ new.city = selectedCity' /\ ~new.gone
           /\ Grows(DashRequests, DashRequests')
\* the dashboard is mounted after the step, newly or for another location than before
LocationGiven ==
    /\ dashMounted'
    /\ ~dashMounted \/ selectedState' # selectedState \/ selectedCity' # selectedCity
\* 30 s of a live interval are over and its callback has run
TickElapsed ==
    /\ Len(intervals') = Len(intervals)
    /\ \E i \in DOMAIN intervals : intervals[i].left = 0 /\ intervals'[i].left = Interval
\* a response with a snapshot arrives for the mounted dashboard
SnapshotArrives ==
    /\ Len(dashInflight') = Len(dashInflight) - 1
    /\ dashOp'.name = "fetchSettle" /\ dashOp'.arrived.t = "snapshot"

\* C19: a fetch for the selected location is started when the dashboard mounts, when
\* its location changes and when 30 s of its interval are over; when a fetch succeeds
\* the snapshot held is the response's payload, whatever was held before.
C19_SnapshotReplacedWholesale ==
    [][/\ LocationGiven => FetchStarted
       /\ TickElapsed => FetchStarted
       /\ SnapshotArrives => data' = dashOp'.arrived
      ]_vars

\* an interval has fetched, and the answer of a later revision, with no history, is
\* the snapshot held
C19_Witness ==
    /\ dashMounted /\ refresh.fetches >= 1
    /\ dashOp.name = "fetchSettle" /\ dashOp.arrived.t = "snapshot"
    /\ data = dashOp.arrived /\ data.rev = 2 /\ data.historical = <<>>

\* ---- a failed fetch
\* a response with a failure arrives for the mounted dashboard
FailureArrives ==
    /\ Len(dashInflight') = Len(dashInflight) - 1
    /\ dashOp'.name = "fetchSettle" /\ dashOp'.arrived.t = "failure"
\* the messages a failed getDashboardData() rejects with
DashErrors == {Str(GetDashboardDataSettle(o).message) : o \in DashFailures}
\* {error && <Alert> ... <Button onClick={handleRefresh} disabled={isLoading}>Retry}
\* among the content rendered while the search panel is closed
ErrorBanner ==
    [shown |-> dashMounted /\ ~LoadingScreen(Dash) /\ ~isSearchOpen /\ error # Null,
     retry |-> ~isLoading]

\* C20: a failed fetch sets the error to its message and the loading flag to false
\* and leaves the snapshot as it was; with the search panel closed the banner shows
\* it with Retry enabled. A set error changes only when a fetch starts, which clears
\* it, or when another failure replaces it. A fetch that no other fetch of the
\* dashboard overlapped and that succeeds ends with no error and its payload held.
C20_FailureKeepsSnapshotAndRecovers ==
    [][/\ FailureArrives =>
            /\ error' \in DashErrors /\ ~isLoading' /\ data' = data
            /\ ~isSearchOpen' => ErrorBanner'.shown /\ ErrorBanner'.retry
       /\ (dashMounted' /\ Grows(DashRequests, DashRequests')) => error' = Null
       /\ (dashMounted /\ dashMounted' /\ error # Null /\ error' # error) =>
            \/ Grows(DashRequests, DashRequests') /\ error' = Null
            \/ FailureArrives
       /\ (SnapshotArrives /\ dashOp'.alone) => error' = Null /\ data' = dashOp'.arrived
      ]_vars

\* a fetch has failed while a snapshot was held: the snapshot is still held and the
\* banner shows the error with Retry enabled
C20_Witness ==
    /\ dashOp.name = "fetchSettle" /\ dashOp.arrived.t = "failure"
    /\ error \in DashErrors /\ ~isLoading /\ data # Null
    /\ ErrorBanner.shown /\ ErrorBanner.retry

\* a fetch that nothing overlapped has succeeded: no error, and its snapshot held
C20_WitnessRecovered ==
    /\ dashOp.name = "fetchSettle" /\ dashOp.alone /\ dashOp.arrived.t = "snapshot"
    /\ error = Null /\ data = dashOp.arrived /\ data.rev = 2

\* ---- the loading flag and the error among overlapping fetches
\* the requests of the mounted dashboard that are in flight
LiveFetches == {i \in DOMAIN dashInflight : ~dashInflight[i].gone}

\* C23: while a fetch of the mounted dashboard is in flight the loading flag is true.
C23_LoadingWhileInFlight ==
    (dashMounted /\ LiveFetches # {}) => isLoading

\* C24: when the last thing the dashboard did was to take a successful response and
\* no fetch of its own is in flight, no error is held.
C24_NoErrorAfterSuccess ==
    (/\ dashMounted /\ LiveFetches = {}
     /\ dashOp.name = "fetchSettle" /\ dashOp.arrived.t = "snapshot") => error = Null

\* ---- the root's overlay and its timers
\* {selectedCity && !showDashboard && (... Initializing Dashboard ...)}
Overlay == selectedCity # <<>> /\ ~showDashboard

\* C27: while the root shows the Initializing Dashboard overlay, a timer that will
\* show the dashboard is pending.
C27_OverlayHasPendingShow ==
    Overlay => appTimers # <<>>

\* C28: showDashboard turns on only while a locality is selected, that is, never by a
\* timer left over from a selection that a region change has since reset.
C28_ShowOnlyAfterLocality ==
    [][(~showDashboard /\ showDashboard') => selectedCity # <<>>]_vars

\* ---- the suggestions and the query
\* C21: a debounce timer is pending, and a suggestion fetch is in flight, only for a
\* query whose trimmed length is at least 2.
C21_TrimmedLengthSchedules ==
    /\ \A i \in DOMAIN barTimers :
          barTimers[i].kind = "debounce" => Len(Trim(barTimers[i].q)) >= 2
    /\ \A i \in DOMAIN sugInflight : Len(Trim(sugInflight[i].q)) >= 2

\* the suggestions dropdown is rendered: showSuggestions && suggestions.length > 0
DropdownOpen == barMounted /\ showSuggestions /\ suggestions # <<>>

\* C25: while the query is shorter than 2 the suggestion list is empty and the
\* dropdown is hidden.
C25_ShortQueryHasNoSuggestions ==
    (barMounted /\ Len(query) < 2) => (suggestions = <<>> /\ ~DropdownOpen)

\* C30: a dropdown that a selection has hidden stays hidden for as long as the user
\* does not edit the query.
C30_SelectionKeepsDropdownHidden ==
    [][(barMounted /\ ~DropdownOpen /\ barOp'.name # "setQuery") => ~DropdownOpen']_vars

\* ---- the results beside the search bar
\* {isSearchOpen && searchResults && (<SearchResults results={searchResults} ...
\* isLoading={isSearching} />)}: what is on screen where the results go
ResultsScreen ==
    IF ~(dashMounted /\ ~LoadingScreen(Dash) /\ isSearchOpen /\ searchResults # Null)
    THEN "none"
    ELSE IF isSearching THEN "searching"
    ELSE Render(searchResults, "all").screen

\* C22: with the panel open and no search in progress, a held bundle that reports
\* zero results is shown as the zero-result placeholder.
C22_ZeroResultsShowPlaceholder ==
    (/\ dashMounted /\ ~LoadingScreen(Dash) /\ isSearchOpen /\ ~isSearching
     /\ searchResults # Null /\ searchResults.results.total = 0)
        => ResultsScreen = "noResults"

\* ---- what a primary search carries
\* C26: no request of a primary search goes out with an empty query and a filter set
\* in which no field is set.
C26_NoEmptyPrimarySearch ==
    \A i \in DOMAIN wire :
        wire[i].method = "globalSearch" =>
            (wire[i].query # Str(<<>>) \/ ~AllEmpty(wire[i].filters))

\* the searches of the mounted dashboard that are in flight
LiveSearches == {i \in DOMAIN searchInflight : ~searchInflight[i].gone}

\* C29: a bundle on screen with no search in flight answers the search for the query
\* and the filter set the dashboard holds (or is the empty bundle of a failed search).
C29_BundleAnswersHeldSearch ==
    (/\ dashMounted /\ ~LoadingScreen(Dash) /\ isSearchOpen
     /\ searchResults # Null /\ LiveSearches = {}) =>
        \/ searchResults = FailedBundle
        \/ searchResults.answers = [query |-> Str(searchQuery), filters |-> searchFilters]

====
